---------------------------- MODULE Spec2Model ----------------------------
(***************************************************************************)
(* Model of the certificate sharing worker (src/certificate-worker.js):    *)
(* N worker processes, each running processParticipants cycles against one *)
(* shared sheet and one shared Drive permission store.                     *)
(*                                                                         *)
(* Strings that the code inspects character by character (names, emails,   *)
(* folder ids, the isShared / isFolderExists cells) are sequences of       *)
(* UTF-16 code units, so that trim(), toLowerCase(), the email regular     *)
(* expression and hashKey() are computed as the code computes them.        *)
(***************************************************************************)
EXTENDS Integers, Sequences, FiniteSets, TLC

(***************************************************************************)
(* Bounds of the model                                                     *)
(***************************************************************************)
NumWorkers == 2      \* worker processes spawned by the orchestrator
MaxCycles == 2       \* processing cycles started in total, all workers
MaxEdits == 1        \* external edits of the sheet (a status cleared by hand)
MaxPerRun == 2       \* MAX_PER_RUN given to the workers
MaxKeyLen == 6       \* longest key drawn for the hashKey specification
MaxSlots == 3        \* largest slot count drawn for the hashKey specification

Workers == 1..NumWorkers

(***************************************************************************)
(* String literals, as code units                                          *)
(***************************************************************************)
EMPTY == << >>
S_TRUE == <<84, 82, 85, 69>>                      \* "TRUE"
S_FALSE == <<70, 65, 76, 83, 69>>                 \* "FALSE"
S_true == <<116, 114, 117, 101>>                  \* "true"
S_false == <<102, 97, 108, 115, 101>>             \* "false"
S_False == <<70, 97, 108, 115, 101>>              \* "False"
S_gmailSuffix == <<64, 103, 109, 97, 105, 108, 46, 99, 111, 109>>  \* "@gmail.com"

N_siti == <<115, 105, 116, 105>>                  \* "siti"
N_SitiPadded == <<32, 83, 105, 116, 105, 32>>     \* " Siti "
N_rudy == <<114, 117, 100, 121>>                  \* "rudy"
N_tono == <<116, 111, 110, 111>>                  \* "tono"
N_wati == <<119, 97, 116, 105>>                  \* "wati"
N_blank == <<32, 32>>                             \* "  "
F_siti == <<70, 45, 115, 105, 116, 105>>          \* "F-siti"
F_rudy == <<70, 45, 114, 117, 100, 121>>          \* "F-rudy"
E_a == <<97>> \o S_gmailSuffix                    \* "a@gmail.com"
E_b == <<98>> \o S_gmailSuffix                    \* "b@gmail.com"
E_B == <<66, 64, 71, 77, 65, 73, 76, 46, 67, 79, 77>>  \* "B@GMAIL.COM"
E_other == <<97, 64, 120, 46, 105, 111>>          \* "a@x.io"
E_bad == <<98, 97, 100>>                          \* "bad"

(***************************************************************************)
(* String functions of the JavaScript runtime                              *)
(***************************************************************************)
IsUpper(c) == c \in 65..90
IsLetter(c) == c \in 65..90 \/ c \in 97..122
IsDigit(c) == c \in 48..57
IsWhite(c) == c \in {9, 10, 11, 12, 13, 32}

ToLower(s) == [i \in DOMAIN s |-> IF IsUpper(s[i]) THEN s[i] + 32 ELSE s[i]]

RECURSIVE TrimStart(_)
TrimStart(s) ==
  IF s = << >> THEN << >>
  ELSE IF IsWhite(Head(s)) THEN TrimStart(Tail(s)) ELSE s

RECURSIVE TrimEnd(_)
TrimEnd(s) ==
  IF s = << >> THEN << >>
  ELSE IF IsWhite(s[Len(s)]) THEN TrimEnd(SubSeq(s, 1, Len(s) - 1)) ELSE s

Trim(s) == TrimEnd(TrimStart(s))

EndsWith(s, suffix) ==
  /\ Len(s) >= Len(suffix)
  /\ SubSeq(s, Len(s) - Len(suffix) + 1, Len(s)) = suffix

\* JavaScript truthiness of a string: only the empty string is falsy
Truthy(s) == s # << >>

(***************************************************************************)
(* hashKey: djb2 over the code units, wrapped to 32 bits at every step.    *)
(* A 32-bit word is held as two 16-bit limbs <<hi, lo>>; hash | 0 and      *)
(* hash >>> 0 keep the bit pattern and differ in how the word is read.     *)
(***************************************************************************)
Limb == 65536

HashSeed == <<0, 5381>>

\* hash = ((hash << 5) + hash) + s.charCodeAt(i); hash = hash | 0
HashStep(h, c) ==
  LET lo == 33 * h[2] + c
      hi == 33 * h[1] + (lo \div Limb)
  IN  <<hi % Limb, lo % Limb>>

RECURSIVE HashLoop(_, _)
HashLoop(h, s) ==
  IF s = << >> THEN h ELSE HashLoop(HashStep(h, Head(s)), Tail(s))

\* the word read as a signed 32-bit integer (the value of hash after | 0)
ToInt32(h) == IF h[1] >= 32768 THEN (h[1] - Limb) * Limb + h[2] ELSE h[1] * Limb + h[2]

\* hashKey(str): the word read as an unsigned 32-bit integer (hash >>> 0)
hashKey(str) == HashLoop(HashSeed, str)

NaN == -1

\* (unsigned word) % n of JavaScript; x % 0 is NaN
UMod(h, n) ==
  IF n = 0 THEN NaN
  ELSE (((h[1] % n) * (Limb % n)) + (h[2] % n)) % n

\* (signed 32-bit) % n of JavaScript: the result takes the sign of the dividend
SMod(x, n) ==
  IF n = 0 THEN NaN
  ELSE IF x >= 0 THEN x % n ELSE 0 - ((0 - x) % n)

\* the slot without the conversion to unsigned: hashKey returning hash | 0
ShardSlotSigned(key, n) == SMod(ToInt32(HashLoop(HashSeed, key)), n)

\* this.hashKey(key) % this.shardTotal
ShardSlot(key, n) == UMod(hashKey(key), n)

(***************************************************************************)
(* Email validation of processParticipants                                 *)
(***************************************************************************)
\* [a-zA-Z0-9._%+-]
IsLocalChar(c) == IsLetter(c) \/ IsDigit(c) \/ c \in {46, 95, 37, 43, 45}
\* [a-zA-Z0-9.-]
IsDomainChar(c) == IsLetter(c) \/ IsDigit(c) \/ c \in {46, 45}

\* /^[a-zA-Z0-9._%+-]+@[a-zA-Z0-9.-]+\.[a-zA-Z]{2,}$/.test(email)
EmailRegexTest(email) ==
  \E at \in 2..Len(email) : \E dot \in (at + 2)..(Len(email) - 2) :
    /\ email[at] = 64
    /\ email[dot] = 46
    /\ \A i \in 1..(at - 1) : IsLocalChar(email[i])
    /\ \A i \in (at + 1)..(dot - 1) : IsDomainChar(email[i])
    /\ \A i \in (dot + 1)..Len(email) : IsLetter(email[i])

\* email.toLowerCase().endsWith('@gmail.com')
IsGmail(email) == EndsWith(ToLower(email), S_gmailSuffix)

\* the validation without the Gmail allow-list
EmailSkipReasonFormatOnly(email) ==
  IF ~EmailRegexTest(email) THEN "INVALID EMAIL FORMAT" ELSE "OK"

\* the reason of the validation skip, or "OK" when the record passes
EmailSkipReason(email) ==
  IF ~EmailRegexTest(email) THEN "INVALID EMAIL FORMAT"
  ELSE IF ~IsGmail(email) THEN "NOT GMAIL ACCOUNT"
  ELSE "OK"

\* a key that keeps the letter case of the name
DedupKeyCaseSensitive(p) == p.nama \o <<124>> \o p.email

\* `${nama.toLowerCase()}|${email}`
DedupKey(p) == ToLower(p.nama) \o <<124>> \o p.email

(***************************************************************************)
(* Reading the sheet and building the working set                          *)
(***************************************************************************)
Min(a, b) == IF a < b THEN a ELSE b

\* the data rows of the sheet as participants; row 1 of the sheet is the header
Participants(rows) ==
  [i \in 1..Len(rows) |->
     [rowIndex |-> i + 1,
      nama |-> rows[i].nama,
      email |-> rows[i].email,
      folderId |-> rows[i].folderId,
      isShared |-> rows[i].isShared,
      isFolderExists |-> rows[i].isFolderExists]]

NormalizeOne(p) == [p EXCEPT !.nama = Trim(p.nama), !.email = ToLower(Trim(p.email))]

NormalizeAll(participants) == [i \in DOMAIN participants |-> NormalizeOne(participants[i])]

\* the normalisation without the filter on empty name / email
NormalizedKeepBlank(participants) == NormalizeAll(participants)

\* participants.map(trim / lowercase).filter(p => p.nama && p.email)
Normalized(participants) ==
  SelectSeq(NormalizeAll(participants), LAMBDA p : Truthy(p.nama) /\ Truthy(p.email))

\* a gate that excludes only the rows already shared
NotYetProcessedTrueOnly(p) == ToLower(p.isShared) # S_true

\* the tri-state gate: isShared is neither 'true' nor 'false' (case-insensitive)
NotYetProcessed(p) ==
  LET isSharedValue == ToLower(p.isShared)
  IN  isSharedValue # S_true /\ isSharedValue # S_false

Eligible(participants) == SelectSeq(Normalized(participants), NotYetProcessed)

\* shard key: FolderId (case-sensitive) if present, else the lowercased name
ShardKey(p) == IF Truthy(p.folderId) THEN p.folderId ELSE ToLower(p.nama)

\* a filter that compares the slot with the 1-based shard number
InShardOneBased(p, total, index) == ShardSlot(ShardKey(p), total) = index + 1

\* (h % this.shardTotal) === this.shardIndex
InShard(p, total, index) == ShardSlot(ShardKey(p), total) = index

\* sharding applied whenever a total is present, zero included
ShardingEnabledAlways(total) == total >= 0

\* if (this.shardTotal > 0)
ShardingEnabled(total) == total > 0

Sharded(list, total, index) ==
  IF ShardingEnabled(total)
  THEN SelectSeq(list, LAMBDA p : InShard(p, total, index))
  ELSE list

IsProblematic(p) == ToLower(p.isFolderExists) = S_false

\* an order that puts the rows with a FolderId first and keeps the rest as read
PrioritizedFolderIdFirst(list) ==
  SelectSeq(list, LAMBDA p : Truthy(p.folderId))
  \o SelectSeq(list, LAMBDA p : ~Truthy(p.folderId))

\* [...withFolderId, ...needsSearch, ...problematic]
Prioritized(list) ==
  SelectSeq(list, LAMBDA p : Truthy(p.folderId))
  \o SelectSeq(list, LAMBDA p : ~Truthy(p.folderId) /\ ~IsProblematic(p))
  \o SelectSeq(list, LAMBDA p : ~Truthy(p.folderId) /\ IsProblematic(p))

\* prioritized.slice(0, maxPerRun)
Slice(list, n) == SubSeq(list, 1, Min(Len(list), n))

\* workingParticipants of one cycle
WorkingSet(participants, total, index, maxPerRun) ==
  Slice(Prioritized(Sharded(Eligible(participants), total, index)), maxPerRun)

(***************************************************************************)
(* The environment: sheets the workers may be started on, the folders of   *)
(* the Drive, and the configuration                                        *)
(***************************************************************************)
Row(nama, email, folderId, isShared, isFolderExists) ==
  [nama |-> nama, email |-> email, folderId |-> folderId,
   isShared |-> isShared, isFolderExists |-> isFolderExists, lastLog |-> ""]

\* three unprocessed rows: two resolvable names, one without a folder
SheetBasic ==
  << Row(N_siti, E_a, EMPTY, EMPTY, EMPTY),
     Row(N_rudy, E_b, EMPTY, EMPTY, EMPTY),
     Row(N_tono, E_a, EMPTY, EMPTY, S_FALSE) >>

\* a pre-filled FolderId, a name that resolves to the same folder, a duplicate
SheetSharedFolder ==
  << Row(N_SitiPadded, E_a, F_siti, EMPTY, EMPTY),
     Row(N_siti, E_b, EMPTY, EMPTY, EMPTY),
     Row(N_SitiPadded, E_B, EMPTY, EMPTY, EMPTY) >>

\* finished rows, and rows with a blank name or a blank email
SheetGate ==
  << Row(N_siti, E_a, F_siti, S_TRUE, S_TRUE),
     Row(N_rudy, E_b, EMPTY, S_False, EMPTY),
     Row(N_blank, E_a, EMPTY, EMPTY, EMPTY),
     Row(N_tono, N_blank, EMPTY, EMPTY, EMPTY) >>

\* rows failing the email validation: bad format, not a Gmail address
SheetInvalid ==
  << Row(N_rudy, E_bad, EMPTY, EMPTY, EMPTY),
     Row(N_siti, E_other, EMPTY, EMPTY, EMPTY) >>

\* rows of the three priority bands, out of priority order in the sheet
SheetPriority ==
  << Row(N_tono, E_b, EMPTY, EMPTY, S_FALSE),
     Row(N_tono, E_a, EMPTY, EMPTY, EMPTY),
     Row(N_SitiPadded, E_a, F_siti, EMPTY, EMPTY) >>

Sheets == {SheetBasic, SheetSharedFolder, SheetGate, SheetInvalid, SheetPriority}

\* folders of the Drive: "Siti" and "Rudy"
DriveFolders ==
  { [name |-> <<83, 105, 116, 105>>, id |-> F_siti],
    [name |-> <<82, 117, 100, 121>>, id |-> F_rudy] }

\* reader permissions that may exist before the first cycle
InitialPerms == { {}, {<<F_siti, E_a>>} }

\* SHARD_INDEX of worker w: the orchestrator numbers its workers from 0
ShardIndex(w) == w - 1

\* the orchestrator starts workerCount workers with SHARD_TOTAL = workerCount;
\* a worker without SHARD_TOTAL is one started by hand, with any SHARD_INDEX
StartedWorkers(total) == IF total > 0 THEN {Workers} ELSE {{w} : w \in Workers}

VARIABLES
  sheet,       \* the data rows of the shared sheet
  perms,       \* Drive: pairs <<folder id, email>> holding the reader role
  shardTotal,  \* SHARD_TOTAL of the run (0: sharding off)
  dryRun,      \* config.get('dryRun')
  maxPerRun,   \* batch cap of a cycle
  active,      \* the worker processes that were started
  cyclesLeft,  \* cycles that may still be started
  edits,       \* external edits made so far
  pc,          \* per worker: position in processParticipants
  snap,        \* per worker: the rows read at the start of its cycle
  work,        \* per worker: workingParticipants
  idx,         \* per worker: index of the current record in work
  seen,        \* per worker: the seen set of the cycle
  cur,         \* per worker: folderId of the current record, permission seen
  stats,       \* per worker: the counters of the cycle
  log,         \* per worker: lines appended to its log file
  trace,       \* per worker: steps and Drive calls of the current record
  finished,    \* records that reached a terminal outcome
  calls,       \* Drive permission calls issued
  cycleFolders, \* per worker: folders it sent permission calls to in this cycle
  writes,      \* sheet cell updates attempted
  hk, hn, hslot, \* hashKey specification: key, slot count, <<slot>> once computed
  rop,         \* remote operation under study: "find", "list" or "create"
  rname,       \* find: the requested folder name
  rmap,        \* find: this.folderMapping (<< >> is null, else <<mapping>>)
  rparent,     \* find: a parentFolderId is configured
  rpc,         \* position in the operation
  rvar,        \* global search: index of the search variation
  rqueue,      \* scoped search: the queue of <<folder id, depth>>
  rloop,       \* the retry loop that is running
  rloops,      \* retry loops that ended
  rnode,       \* scoped search: listing calls made per folder id
  rcalls,      \* Drive API calls made by the operation
  rresult,     \* what the caller of the operation got
  rtimedOut,   \* find: the 30 s timer fired before the search settled
  tnow,        \* throttle specification: Date.now()
  tlast,       \* this.lastApiCallAt
  tmain,       \* the flow of processParticipants
  tsearch,     \* per record: the flow of its _findFolderByNameInternal
  tstarts,     \* the Drive API calls started
  wpc,         \* record writes: the write the record loop is at
  wrec,        \* record writes: index of the record
  wtried,      \* record writes: <<record, side effect>> attempted
  wfailed,     \* record writes: <<record, side effect>> that failed
  wpending,    \* record writes: an 'error' event of the log stream is queued
  xenv,        \* worker run: service.json, header row, LOOP and TTY of the process
  xpc,         \* worker run: position in run() and the module entry
  xcode,       \* worker run: exit code of the process (-1 while it runs)
  xreads,      \* worker run: calls of getSpreadsheetDataFlexible so far
  lockFile,    \* monitor lock: content of LOCK_PATH (<< >>: no file, else <<pid>>)
  mpc,         \* per monitor: position in main()
  mread,       \* per monitor: the pid parsed from the lock file
  mwrote,      \* per monitor: it wrote the lock and registered cleanup
  mtimers,     \* per monitor: its view's setInterval timer is active
  mvia,        \* per monitor: how the process came to end
  mcode,       \* per monitor: exit code of the process (-1 while it runs)
  logDir,      \* table monitor: per log file of logs/, what is on disk
  clock,       \* table monitor: Date.now()
  slots,       \* table monitor: this.workers
  polled,      \* table monitor: updateWorkerStates ran on this directory and time
  tfile,       \* live tail: per log file of logs/, the bytes on disk and what is to come
  tracked,     \* live tail: this.tracked, per file << >> or <<pos>>
  emitted,     \* live tail: the lines handed to printLine, in order
  tread,       \* live tail: per file, first offset and the last read of pollOnce
  grid,        \* sheet cells: the rows of the sheet, row 1 the header, cell by cell
  gcycle,      \* sheet cells: the cycle of the worker (columns detected, working set)
  gwrites,     \* sheet cells: the values.update calls of the cycle, as sent
  bo,          \* backoff: the retry loop of one Drive call
  bfs          \* scoped search: the breadth-first loop of one resolution

ioVars == <<wpc, wrec, wtried, wfailed, wpending>>

runVars == <<xenv, xpc, xcode, xreads>>

lockVars == <<lockFile, mpc, mread, mwrote, mtimers, mvia, mcode>>

monVars == <<logDir, clock, slots, polled>>

tailVars == <<tfile, tracked, emitted, tread>>

cellVars == <<grid, gcycle, gwrites>>

backVars == <<bo>>

scopeVars == <<bfs>>

auxVars == <<ioVars, runVars, lockVars, monVars, tailVars, cellVars, backVars, scopeVars>>

vars == <<sheet, perms, shardTotal, dryRun, maxPerRun, active, cyclesLeft, edits, pc, snap,
          work, idx, seen, cur, stats, log, trace, finished, calls, cycleFolders,
          writes, hk, hn, hslot, rop, rname, rmap, rparent, rpc, rvar, rqueue, rloop,
          rloops, rnode, rcalls, rresult, rtimedOut, tnow, tlast, tmain, tsearch, tstarts,
          auxVars>>

hashVars == <<hk, hn, hslot>>

remoteVars == <<rop, rname, rmap, rparent, rpc, rvar, rqueue, rloop, rloops, rnode, rcalls,
                rresult, rtimedOut>>

throttleVars == <<tnow, tlast, tmain, tsearch, tstarts>>

workerVars == <<sheet, perms, shardTotal, dryRun, maxPerRun, active, cyclesLeft, edits, pc,
                snap, work, idx, seen, cur, stats, log, trace, finished, calls,
                cycleFolders, writes>>

NoCurrent == [folderId |-> EMPTY, heldAtCheck |-> FALSE]

ZeroStats == [total |-> 0, done |-> 0, skipped |-> 0, errors |-> 0]

NoLoop == [op |-> "", attempt |-> 0, tries |-> 0, sleeps |-> 0, allRetryable |-> TRUE,
           fatal |-> FALSE, afterFatal |-> 0]

Pending == [kind |-> "pending"]

\* no remote operation is under study
RemoteIdle ==
  /\ rop = "" /\ rname = EMPTY /\ rmap = << >> /\ rparent = FALSE
  /\ rpc = "done" /\ rvar = 0 /\ rqueue = << >> /\ rloop = NoLoop /\ rloops = {}
  /\ rnode = << >> /\ rcalls = 0 /\ rresult = Pending /\ rtimedOut = FALSE

\* no record is being written
IoIdle ==
  /\ wpc = "done" /\ wrec = 0 /\ wtried = {} /\ wfailed = {} /\ wpending = FALSE

\* no worker run is under study
RunIdle ==
  /\ xenv = << >> /\ xpc = "idle" /\ xcode = -1 /\ xreads = 0

\* no monitor is under study
LockIdle ==
  /\ lockFile = << >> /\ mpc = << >> /\ mread = << >> /\ mwrote = << >>
  /\ mtimers = << >> /\ mvia = << >> /\ mcode = << >>

\* no table monitor is under study
MonIdle ==
  /\ logDir = << >> /\ clock = 0 /\ slots = << >> /\ polled = FALSE

\* no live tail is under study
TailIdle ==
  /\ tfile = << >> /\ tracked = << >> /\ emitted = << >> /\ tread = << >>

CellIdle == grid = << >> /\ gcycle = << >> /\ gwrites = << >>

BackIdle == bo = << >>

ScopeIdle == bfs = << >>

AuxIdle == IoIdle /\ RunIdle /\ LockIdle /\ MonIdle /\ TailIdle /\ CellIdle /\ BackIdle /\ ScopeIdle

\* no timed flow is under study
ThrottleIdle ==
  /\ tnow = 0 /\ tlast = 0 /\ tmain = << >> /\ tsearch = << >> /\ tstarts = {}

Init ==
  /\ sheet \in Sheets
  /\ perms \in InitialPerms
  /\ shardTotal \in {0, NumWorkers}
  /\ dryRun \in BOOLEAN
  /\ maxPerRun = MaxPerRun
  /\ active \in StartedWorkers(shardTotal)
  /\ cyclesLeft = MaxCycles
  /\ edits = 0
  /\ pc = [w \in Workers |-> "idle"]
  /\ snap = [w \in Workers |-> << >>]
  /\ work = [w \in Workers |-> << >>]
  /\ idx = [w \in Workers |-> 1]
  /\ seen = [w \in Workers |-> {}]
  /\ cur = [w \in Workers |-> NoCurrent]
  /\ stats = [w \in Workers |-> ZeroStats]
  /\ log = [w \in Workers |-> << >>]
  /\ trace = [w \in Workers |-> << >>]
  /\ finished = {}
  /\ calls = {}
  /\ cycleFolders = [w \in Workers |-> {}]
  /\ writes = {}
  /\ hk = << >> /\ hn = 1 /\ hslot = << >>
  /\ RemoteIdle
  /\ ThrottleIdle
  /\ AuxIdle

(***************************************************************************)
(* Sheet and Drive operations                                              *)
(***************************************************************************)
\* updateCellByIndex: the cell of column col in sheet row rowIndex
SetCell(rows, rowIndex, col, value) ==
  IF rowIndex - 1 \in DOMAIN rows
  THEN [rows EXCEPT ![rowIndex - 1][col] = value]
  ELSE rows

\* the search behind findFolderByName (no folder mapping loaded): the id of
\* a folder whose name equals the target case-insensitively, or null
\* (EMPTY) when there is none, the search failed or the 30 s timeout fired
findFolderByName(name) ==
  IF ~Truthy(name) THEN {EMPTY}
  ELSE {EMPTY} \cup {f.id : f \in {g \in DriveFolders : ToLower(g.name) = ToLower(name)}}

ListOutcomes == {"ok", "error"}

\* hasPermission: the result of permissions.list searched for the recipient;
\* every error of the call (retries exhausted or not retryable) gives false
hasPermission(fileId, email, outcome) ==
  IF outcome = "ok" THEN <<fileId, ToLower(email)>> \in perms ELSE FALSE

\* grantPermission calling permissions.create in every mode
grantCallsCreateAlways(isDryRun) == TRUE

\* grantPermission calls permissions.create unless dry-run is configured
grantCallsCreate(isDryRun) == ~isDryRun

\* const status = dryRun ? 'DRY_RUN' : 'GRANTED'
GrantMarker(isDryRun) == IF isDryRun THEN "DRY_RUN" ELSE "GRANTED"

(***************************************************************************)
(* processParticipants, one action per stretch between remote calls        *)
(***************************************************************************)
Current(w) == work[w][idx[w]]

\* a loop that is left when a record ends
AdvanceEndsCycle(w) ==
  /\ idx' = [idx EXCEPT ![w] = @ + 1]
  /\ pc' = [pc EXCEPT ![w] = "summary"]
  /\ cur' = [cur EXCEPT ![w] = NoCurrent]
  /\ trace' = [trace EXCEPT ![w] = << >>]

\* the for loop moves on: next record, or the summary after the last one
Advance(w) ==
  /\ idx' = [idx EXCEPT ![w] = @ + 1]
  /\ pc' = [pc EXCEPT ![w] = IF idx[w] < Len(work[w]) THEN "validate" ELSE "summary"]
  /\ cur' = [cur EXCEPT ![w] = NoCurrent]
  /\ trace' = [trace EXCEPT ![w] = << >>]

\* an end of the record that leaves the counters as they are
EndRecordUncounted(w, outcome, counter, steps) ==
  /\ stats' = stats
  /\ log' = [log EXCEPT ![w] = Append(@, <<outcome, Current(w).rowIndex>>)]
  /\ finished' = finished \cup
       {[w |-> w, p |-> Current(w), outcome |-> outcome, trace |-> steps]}
  /\ Advance(w)

\* the record of worker w ends with an outcome: counter, log line, loop moves on
EndRecord(w, outcome, counter, steps) ==
  /\ stats' = [stats EXCEPT ![w][counter] = @ + 1]
  /\ log' = [log EXCEPT ![w] = Append(@, <<outcome, Current(w).rowIndex>>)]
  /\ finished' = finished \cup
       {[w |-> w, p |-> Current(w), outcome |-> outcome, trace |-> steps]}
  /\ Advance(w)

\* getSpreadsheetDataFlexible, then processParticipants up to the loop
StartCycle(w) ==
  /\ w \in active
  /\ pc[w] = "idle"
  /\ cyclesLeft > 0
  /\ cyclesLeft' = cyclesLeft - 1
  /\ LET working == WorkingSet(Participants(sheet), shardTotal, ShardIndex(w), maxPerRun)
     IN  /\ snap' = [snap EXCEPT ![w] = sheet]
         /\ work' = [work EXCEPT ![w] = working]
         /\ log' = [log EXCEPT ![w] = Append(@, <<"PROCESSING", Len(working)>>)]
         /\ pc' = [pc EXCEPT ![w] = IF Len(working) = 0 THEN "summary" ELSE "validate"]
  /\ idx' = [idx EXCEPT ![w] = 1]
  /\ seen' = [seen EXCEPT ![w] = {}]
  /\ cur' = [cur EXCEPT ![w] = NoCurrent]
  /\ stats' = [stats EXCEPT ![w] = ZeroStats]
  /\ trace' = [trace EXCEPT ![w] = << >>]
  /\ cycleFolders' = [cycleFolders EXCEPT ![w] = {}]
  /\ UNCHANGED <<sheet, perms, shardTotal, dryRun, maxPerRun, active, edits, finished,
                 calls, writes, hashVars, remoteVars, throttleVars, auxVars>>

\* email validation, duplicate check and the 'already shared' test
ValidateRecord(w) ==
  /\ pc[w] = "validate"
  /\ LET p == Current(w)
         reason == EmailSkipReason(p.email)
         counted == [stats EXCEPT ![w].total = @ + 1]
     IN
       IF reason # "OK" THEN
         /\ sheet' = SetCell(SetCell(sheet, p.rowIndex, "isShared", S_FALSE),
                             p.rowIndex, "lastLog", "SKIP: " \o reason)
         /\ writes' = writes \cup {<<w, p.rowIndex, "isShared">>, <<w, p.rowIndex, "LastLog">>}
         /\ stats' = [counted EXCEPT ![w].skipped = @ + 1]
         /\ log' = [log EXCEPT ![w] = Append(@, <<"SKIP " \o reason, p.rowIndex>>)]
         /\ finished' = finished \cup
              {[w |-> w, p |-> p, outcome |-> "SKIP " \o reason, trace |-> <<"validate">>]}
         /\ Advance(w)
         /\ UNCHANGED seen
       ELSE IF DedupKey(p) \in seen[w] THEN
         /\ sheet' = SetCell(sheet, p.rowIndex, "lastLog", "SKIP: Duplicate entry")
         /\ writes' = writes \cup {<<w, p.rowIndex, "LastLog">>}
         /\ stats' = [counted EXCEPT ![w].skipped = @ + 1]
         /\ log' = [log EXCEPT ![w] = Append(@, <<"SKIP duplicate", p.rowIndex>>)]
         /\ finished' = finished \cup
              {[w |-> w, p |-> p, outcome |-> "SKIP duplicate",
                trace |-> <<"validate", "dedupe">>]}
         /\ Advance(w)
         /\ UNCHANGED seen
       ELSE IF ToLower(p.isShared) = S_true THEN
         /\ sheet' = SetCell(sheet, p.rowIndex, "lastLog", "SKIP: Already shared")
         /\ writes' = writes \cup {<<w, p.rowIndex, "LastLog">>}
         /\ stats' = [counted EXCEPT ![w].skipped = @ + 1]
         /\ log' = [log EXCEPT ![w] = Append(@, <<"SKIP already shared", p.rowIndex>>)]
         /\ finished' = finished \cup
              {[w |-> w, p |-> p, outcome |-> "SKIP already shared",
                trace |-> <<"validate", "dedupe">>]}
         /\ Advance(w)
         /\ seen' = [seen EXCEPT ![w] = @ \cup {DedupKey(p)}]
       ELSE
         /\ seen' = [seen EXCEPT ![w] = @ \cup {DedupKey(p)}]
         /\ stats' = counted
         /\ trace' = [trace EXCEPT ![w] = <<"validate", "dedupe">>]
         /\ pc' = [pc EXCEPT ![w] = "resolve"]
         /\ UNCHANGED <<sheet, writes, log, finished, idx, cur>>
  /\ UNCHANGED <<perms, shardTotal, dryRun, maxPerRun, active, cyclesLeft, edits, snap, work,
                 calls, cycleFolders, hashVars, remoteVars, throttleVars, auxVars>>

\* the cells written one after another into a row
RECURSIVE ApplyWrites(_, _, _)
ApplyWrites(rows, rowIndex, cells) ==
  IF cells = << >> THEN rows
  ELSE ApplyWrites(SetCell(rows, rowIndex, Head(cells).col, Head(cells).value),
                   rowIndex, Tail(cells))

\* a folder-not-found record that also gets its status cell written
NotFoundWritesWithStatus ==
  << [col |-> "isShared", label |-> "isShared", value |-> S_FALSE],
     [col |-> "isFolderExists", label |-> "isFolderExists", value |-> S_FALSE],
     [col |-> "lastLog", label |-> "LastLog", value |-> "FOLDER NOT FOUND"] >>

\* the cells written when the folder of a record is not found
NotFoundWrites ==
  << [col |-> "isFolderExists", label |-> "isFolderExists", value |-> S_FALSE],
     [col |-> "lastLog", label |-> "LastLog", value |-> "FOLDER NOT FOUND"] >>

\* folder resolution and the isFolderExists / FolderId write-back
ResolveRecord(w) ==
  /\ pc[w] = "resolve"
  /\ LET p == Current(w)
         searched == ~Truthy(p.folderId)
         steps == trace[w] \o (IF searched THEN <<"resolve", "files.list">> ELSE <<"resolve">>)
     IN  \E folderId \in (IF searched THEN findFolderByName(p.nama) ELSE {p.folderId}) :
           IF ~Truthy(folderId) THEN
             /\ sheet' = ApplyWrites(sheet, p.rowIndex, NotFoundWrites)
             /\ writes' = writes \cup
                  {<<w, p.rowIndex, NotFoundWrites[i].label>> : i \in DOMAIN NotFoundWrites}
             /\ EndRecord(w, "ERROR folder not found", "errors", steps)
           ELSE
             /\ sheet' = IF searched
                         THEN SetCell(SetCell(sheet, p.rowIndex, "isFolderExists", S_TRUE),
                                      p.rowIndex, "folderId", folderId)
                         ELSE SetCell(sheet, p.rowIndex, "isFolderExists", S_TRUE)
             /\ writes' = writes \cup {<<w, p.rowIndex, "isFolderExists">>}
                  \cup (IF searched THEN {<<w, p.rowIndex, "FolderId">>} ELSE {})
             /\ cur' = [cur EXCEPT ![w].folderId = folderId]
             /\ trace' = [trace EXCEPT ![w] = steps]
             /\ pc' = [pc EXCEPT ![w] = "check"]
             /\ UNCHANGED <<stats, log, finished, idx>>
  /\ UNCHANGED <<perms, shardTotal, dryRun, maxPerRun, active, cyclesLeft, edits, snap, work,
                 seen, calls, cycleFolders, hashVars, remoteVars, throttleVars, auxVars>>

\* a Drive permission call as it is observed: operation, caller, record, target,
\* and whether the recipient held the role when the permission check was made
Call(op, w, p, fileId, heldAtCheck) ==
  [op |-> op, w |-> w, row |-> p.rowIndex, fileId |-> fileId, heldAtCheck |-> heldAtCheck]

\* the permission check: permissions.list, then the 'already has access' skip
CheckPermission(w) ==
  /\ pc[w] = "check"
  /\ LET p == Current(w)
         fileId == cur[w].folderId
         held == <<fileId, p.email>> \in perms
         steps == trace[w] \o <<"check", "permissions.list">>
     IN  \E outcome \in ListOutcomes :
           /\ calls' = calls \cup {Call("permissions.list", w, p, fileId, held)}
           /\ cycleFolders' = [cycleFolders EXCEPT ![w] = @ \cup {fileId}]
           /\ IF hasPermission(fileId, p.email, outcome) THEN
                /\ sheet' = SetCell(SetCell(sheet, p.rowIndex, "isShared", S_TRUE),
                                    p.rowIndex, "lastLog", "SKIP: Already has reader access")
                /\ writes' = writes \cup {<<w, p.rowIndex, "isShared">>, <<w, p.rowIndex, "LastLog">>}
                /\ EndRecord(w, "SKIP already has reader", "skipped", steps)
              ELSE
                /\ cur' = [cur EXCEPT ![w].heldAtCheck = held]
                /\ trace' = [trace EXCEPT ![w] = steps]
                /\ pc' = [pc EXCEPT ![w] = "grant"]
                /\ UNCHANGED <<sheet, writes, stats, log, finished, idx>>
  /\ UNCHANGED <<perms, shardTotal, dryRun, maxPerRun, active, cyclesLeft, edits, snap, work,
                 seen, hashVars, remoteVars, throttleVars, auxVars>>

CreateOutcomes == {"ok", "error"}

\* grantPermission and the outcome of the record: GRANTED / DRY_RUN, or the
\* catch block when permissions.create throws
GrantRecord(w) ==
  /\ pc[w] = "grant"
  /\ LET p == Current(w)
         fileId == cur[w].folderId
     IN  IF grantCallsCreate(dryRun) THEN
           \E outcome \in CreateOutcomes :
             /\ calls' = calls \cup {Call("permissions.create", w, p, fileId, cur[w].heldAtCheck)}
             /\ cycleFolders' = [cycleFolders EXCEPT ![w] = @ \cup {fileId}]
             /\ IF outcome = "ok" THEN
                  /\ perms' = perms \cup {<<fileId, p.email>>}
                  /\ sheet' = SetCell(SetCell(sheet, p.rowIndex, "isShared", S_TRUE),
                                      p.rowIndex, "lastLog", GrantMarker(dryRun))
                  /\ EndRecord(w, GrantMarker(dryRun), "done",
                               trace[w] \o <<"grant", "permissions.create">>)
                ELSE
                  /\ perms' = perms
                  /\ sheet' = SetCell(SetCell(sheet, p.rowIndex, "isShared", S_FALSE),
                                      p.rowIndex, "lastLog", "ERROR")
                  /\ EndRecord(w, "ERROR", "errors",
                               trace[w] \o <<"grant", "permissions.create">>)
         ELSE
           /\ sheet' = SetCell(SetCell(sheet, p.rowIndex, "isShared", S_TRUE),
                               p.rowIndex, "lastLog", GrantMarker(dryRun))
           /\ EndRecord(w, GrantMarker(dryRun), "done", trace[w] \o <<"grant">>)
           /\ UNCHANGED <<perms, calls, cycleFolders>>
  /\ writes' = writes \cup {<<w, Current(w).rowIndex, "isShared">>,
                            <<w, Current(w).rowIndex, "LastLog">>}
  /\ UNCHANGED <<shardTotal, dryRun, maxPerRun, active, cyclesLeft, edits, snap, work, seen,
                 hashVars, remoteVars, throttleVars, auxVars>>

\* the summary line; in loop mode the worker then waits for its next cycle
EndCycle(w) ==
  /\ pc[w] = "summary"
  /\ log' = [log EXCEPT ![w] = Append(@, <<"SUMMARY", stats[w].total>>)]
  /\ pc' = [pc EXCEPT ![w] = "idle"]
  /\ UNCHANGED <<sheet, perms, shardTotal, dryRun, maxPerRun, active, cyclesLeft, edits, snap,
                 work, idx, seen, cur, stats, trace, finished, calls, cycleFolders, writes,
                 hashVars, remoteVars, throttleVars, auxVars>>

\* somebody clears the status cell of a finished row by hand, between cycles
ExternalReset(r) ==
  /\ edits < MaxEdits
  /\ \A w \in Workers : pc[w] = "idle"
  /\ r \in DOMAIN sheet
  /\ Truthy(sheet[r].isShared)
  /\ edits' = edits + 1
  /\ sheet' = [sheet EXCEPT ![r].isShared = EMPTY]
  /\ UNCHANGED <<perms, shardTotal, dryRun, maxPerRun, active, cyclesLeft, pc, snap, work, idx,
                 seen, cur, stats, log, trace, finished, calls, cycleFolders, writes,
                 hashVars, remoteVars, throttleVars, auxVars>>

Next ==
  \/ \E w \in Workers : StartCycle(w)
  \/ \E w \in Workers : ValidateRecord(w)
  \/ \E w \in Workers : ResolveRecord(w)
  \/ \E w \in Workers : CheckPermission(w)
  \/ \E w \in Workers : GrantRecord(w)
  \/ \E w \in Workers : EndCycle(w)
  \/ \E r \in DOMAIN sheet : ExternalReset(r)

Spec == Init /\ [][Next]_vars

(***************************************************************************)
(* hashKey on its own: a key and a slot count are drawn, the slot computed *)
(***************************************************************************)
\* code units of the drawn keys: '-', 'F', 'i', 'z'
HashAlphabet == {45, 70, 105, 122}

HashKeys == UNION {[1..n -> HashAlphabet] : n \in 0..MaxKeyLen}

InitHash ==
  /\ hk \in HashKeys
  /\ hn \in 1..MaxSlots
  /\ hslot = << >>
  /\ sheet = SheetBasic
  /\ perms = {}
  /\ shardTotal = 0
  /\ dryRun = FALSE
  /\ maxPerRun = MaxPerRun
  /\ active = {}
  /\ cyclesLeft = 0
  /\ edits = 0
  /\ pc = [w \in Workers |-> "idle"]
  /\ snap = [w \in Workers |-> << >>]
  /\ work = [w \in Workers |-> << >>]
  /\ idx = [w \in Workers |-> 1]
  /\ seen = [w \in Workers |-> {}]
  /\ cur = [w \in Workers |-> NoCurrent]
  /\ stats = [w \in Workers |-> ZeroStats]
  /\ log = [w \in Workers |-> << >>]
  /\ trace = [w \in Workers |-> << >>]
  /\ finished = {}
  /\ calls = {}
  /\ cycleFolders = [w \in Workers |-> {}]
  /\ writes = {}
  /\ RemoteIdle
  /\ ThrottleIdle
  /\ AuxIdle

\* h % shardTotal for the drawn key
ApplyHash ==
  /\ hslot = << >>
  /\ hslot' = <<ShardSlot(hk, hn)>>
  /\ UNCHANGED <<hk, hn, sheet, perms, shardTotal, dryRun, maxPerRun, active, cyclesLeft,
                 edits, pc, snap, work, idx, seen, cur, stats, log, trace, finished,
                 calls, cycleFolders, writes, remoteVars, throttleVars, auxVars>>

NextHash == ApplyHash

SpecHash == InitHash /\ [][NextHash]_vars

(***************************************************************************)
(* Properties                                                              *)
(***************************************************************************)
Rows(list) == {list[i].rowIndex : i \in DOMAIN list}

InCycle(w) == snap[w] # << >>

\* C1: with sharding on, no sheet row is cell-written or sent to Drive by
\* two different workers, in any interleaving of the workers' cycles
C1_RowOwnedByOneWorker ==
  shardTotal > 0 =>
    \A r \in DOMAIN sheet :
      Cardinality({x[1] : x \in {y \in writes : y[2] = r + 1}}
                  \cup {c.w : c \in {d \in calls : d.row = r + 1}}) <= 1

\* C2: with sharding on, two workers that read the same sheet contents never
\* send permission calls to the same folder id
C2_FolderOwnedByOneWorker ==
  shardTotal > 0 =>
    \A w1, w2 \in Workers :
      (w1 # w2 /\ InCycle(w1) /\ snap[w1] = snap[w2])
        => cycleFolders[w1] \cap cycleFolders[w2] = {}

\* the worker has just read the sheet: the snapshot stays as read until the
\* worker's next cycle, so every snapshot is seen in such a state
JustRead(w) == InCycle(w) /\ idx[w] = 1 /\ pc[w] \in {"validate", "summary"}

\* C3: for one sheet snapshot and every slot count N > 0, each eligible record
\* is selected by exactly one shard index in 0..N-1, and the working sets of
\* two workers that read the same snapshot are disjoint
C3_ShardsPartitionEligible ==
  /\ \A w \in Workers :
       JustRead(w) =>
         LET elig == Eligible(Participants(snap[w]))
         IN  \A n \in 1..MaxSlots : \A i \in DOMAIN elig :
               Cardinality({k \in 0..(n - 1) : InShard(elig[i], n, k)}) = 1
  /\ \A w1, w2 \in Workers :
       (shardTotal > 0 /\ w1 # w2 /\ InCycle(w1) /\ snap[w1] = snap[w2])
         => Rows(work[w1]) \cap Rows(work[w2]) = {}

\* C3 witness: two workers hold the same snapshot and each selected records
C3_Witness ==
  /\ shardTotal > 0
  /\ \E w1, w2 \in Workers :
       /\ w1 # w2 /\ InCycle(w1) /\ snap[w1] = snap[w2]
       /\ work[w1] # << >> /\ work[w2] # << >>

\* C4: for every key and every slot count n > 0 the owning slot lies in
\* 0..n-1 and the wrapped hash is a non-negative 32-bit value
C4_SlotInRange ==
  hslot # << >> =>
    /\ hslot[1] \in 0..(hn - 1)
    /\ hashKey(hk)[1] \in 0..(Limb - 1)
    /\ hashKey(hk)[2] \in 0..(Limb - 1)

\* C4 witness: a slot was computed for a key whose hash has bit 31 set
C4_Witness ==
  /\ hslot # << >>
  /\ hn > 1
  /\ ToInt32(hashKey(hk)) < 0
  /\ hslot[1] > 0

\* C5: with SHARD_TOTAL 0 the working set is the capped, prioritized full
\* eligible set, whatever the worker's SHARD_INDEX
C5_NoShardingWhenTotalZero ==
  shardTotal = 0 =>
    \A w \in Workers :
      InCycle(w) =>
        work[w] = Slice(Prioritized(Eligible(Participants(snap[w]))), maxPerRun)

\* C5 witness: a worker with SHARD_INDEX > 0 and SHARD_TOTAL 0 selected records
C5_Witness ==
  /\ shardTotal = 0
  /\ \E w \in Workers : ShardIndex(w) > 0 /\ InCycle(w) /\ Len(work[w]) >= 2

StatusSet(v) == ToLower(v) = S_true \/ ToLower(v) = S_false

\* C6 (state part): no row of a working set had a status reading 'true' or
\* 'false', in any letter case, when the cycle read the sheet
C6_OnlyEmptyStatusSelected ==
  \A w \in Workers : \A i \in DOMAIN work[w] :
    ~StatusSet(snap[w][work[w][i].rowIndex - 1].isShared)

\* C6 (step part): a status that is set is cleared by an external edit only
C6_StatusClearedOnlyByEdit ==
  \A r \in DOMAIN sheet :
    (Truthy(sheet[r].isShared) /\ ~Truthy(sheet'[r].isShared)) => edits' = edits + 1

C7_NoCreateWhenAlreadyHeld ==
  \A c \in calls : c.op = "permissions.create" => ~c.heldAtCheck

Steps(f) == {f.trace[i] : i \in DOMAIN f.trace}

LogLines(w) == {log[w][i] : i \in DOMAIN log[w]}

\* C8: with dry-run on, permissions.create is never called, no record is
\* recorded as GRANTED, and every record that reaches the grant step went
\* through validation, resolution and the permission check and is recorded
\* with the DRY_RUN marker in its cells and in the log
C8_DryRunNeverCreates ==
  dryRun =>
    /\ \A c \in calls : c.op # "permissions.create"
    /\ \A w \in Workers : \A l \in LogLines(w) : l[1] # "GRANTED"
    /\ \A r \in DOMAIN sheet : sheet[r].lastLog # "GRANTED"
    /\ \A f \in finished :
         "grant" \in Steps(f) =>
           /\ f.outcome = "DRY_RUN"
           /\ {"validate", "dedupe", "resolve", "check", "permissions.list"} \subseteq Steps(f)
           /\ <<"DRY_RUN", f.p.rowIndex>> \in LogLines(f.w)
           /\ {<<f.w, f.p.rowIndex, "isShared">>, <<f.w, f.p.rowIndex, "LastLog">>}
                \subseteq writes

\* C8 witness: a dry-run cycle took a record through the grant step
C8_Witness ==
  /\ dryRun
  /\ \E f \in finished : f.outcome = "DRY_RUN" /\ "permissions.list" \in Steps(f)

\* the steps of a record in their fixed order, each with its Drive call
StepRank(step) ==
  CASE step = "validate" -> 1
    [] step = "dedupe" -> 2
    [] step = "resolve" -> 3
    [] step = "files.list" -> 4
    [] step = "check" -> 5
    [] step = "permissions.list" -> 6
    [] step = "grant" -> 7
    [] step = "permissions.create" -> 8

InOrder(tr) == \A i, j \in DOMAIN tr : i < j => StepRank(tr[i]) < StepRank(tr[j])

SkipOutcomes ==
  {"SKIP INVALID EMAIL FORMAT", "SKIP NOT GMAIL ACCOUNT", "SKIP duplicate",
   "SKIP already shared", "SKIP already has reader"}

Outcomes == SkipOutcomes \cup {"ERROR folder not found", "GRANTED", "DRY_RUN", "ERROR"}

\* the emails of the sheets as a worker normalises them, each with the verdict
\* of the format and Gmail tests
SheetEmails == UNION {{ToLower(Trim(sh[i].email)) : i \in DOMAIN sh} : sh \in Sheets}

ValidGmail == [e \in SheetEmails |-> EmailRegexTest(e) /\ IsGmail(e)]

\* C9: the steps of a record run in the order validate, duplicate check,
\* resolve, permission check, grant; a record ends in one outcome and no step
\* runs after the short-circuit
C9_FixedOrderShortCircuit ==
  /\ \A w \in Workers : InOrder(trace[w])
  /\ \A f \in finished :
       /\ InOrder(f.trace)
       /\ f.outcome \in Outcomes
       /\ f.trace[1] = "validate"
       /\ ~ValidGmail[f.p.email]
            <=> f.outcome \in {"SKIP INVALID EMAIL FORMAT", "SKIP NOT GMAIL ACCOUNT"}
       /\ f.outcome \in {"SKIP INVALID EMAIL FORMAT", "SKIP NOT GMAIL ACCOUNT"}
            => f.trace = <<"validate">>
       /\ f.outcome = "SKIP duplicate" => f.trace = <<"validate", "dedupe">>
       /\ f.outcome = "ERROR folder not found"
            => Steps(f) \cap {"check", "permissions.list", "grant", "permissions.create"} = {}
       /\ f.outcome = "SKIP already has reader"
            => /\ "permissions.list" \in Steps(f)
               /\ Steps(f) \cap {"grant", "permissions.create"} = {}
       /\ f.outcome \in {"GRANTED", "DRY_RUN", "ERROR"} => "grant" \in Steps(f)
  /\ \A w \in Workers :
       LET ended == stats[w].done + stats[w].skipped + stats[w].errors
       IN  /\ ended = stats[w].total - (IF pc[w] \in {"resolve", "check", "grant"} THEN 1 ELSE 0)
           /\ InCycle(w) => ended = idx[w] - 1

\* C9 witness: every kind of outcome has been reached by some record
C9_Witness ==
  /\ \E f \in finished : f.outcome = "SKIP duplicate"
  /\ \E f \in finished : f.outcome = "ERROR folder not found"
  /\ \E f \in finished : f.outcome = "SKIP already has reader"
  /\ \E f \in finished : f.outcome = "GRANTED"

BlankRow(row) == ~Truthy(Trim(row.nama)) \/ ~Truthy(Trim(row.email))

EmptyStatusRows(rows) == {r \in DOMAIN rows : ~Truthy(rows[r].isShared)}

\* C10 as stated: a record whose name or email is empty after trimming ends
\* the cycle as SKIPPED[invalid-format], persisted (no shard or cap excludes it)
C10_BlankRecordSkippedAndPersisted ==
  \A w \in Workers :
    (pc[w] = "summary" /\ shardTotal = 0
       /\ Cardinality(EmptyStatusRows(snap[w])) <= maxPerRun)
      => \A r \in EmptyStatusRows(snap[w]) :
           BlankRow(snap[w][r])
             => \E f \in finished :
                  /\ f.w = w /\ f.p.rowIndex = r + 1
                  /\ f.outcome = "SKIP INVALID EMAIL FORMAT"

\* C10 amended: a record whose name or email is empty after trimming is in no
\* working set; no cell of its row is written, no outcome line is logged for
\* it and no folder resolution or Drive call is made for it
C10_BlankRecordDropped ==
  /\ \A w \in Workers : \A i \in DOMAIN work[w] :
       Truthy(work[w][i].nama) /\ Truthy(work[w][i].email)
  /\ \A r \in DOMAIN sheet :
       BlankRow(sheet[r]) =>
         /\ \A w \in Workers : (r + 1) \notin Rows(work[w])
         /\ \A x \in writes : x[2] # r + 1
         /\ \A f \in finished : f.p.rowIndex # r + 1
         /\ \A c \in calls : c.row # r + 1
         /\ \A w \in Workers : \A l \in LogLines(w) : l[1] \in Outcomes => l[2] # r + 1

\* C10 witness: a cycle that read blank rows with an empty status has run to
\* its summary
C10_Witness ==
  \E w \in Workers :
    /\ pc[w] = "summary"
    /\ \E r \in EmptyStatusRows(snap[w]) : BlankRow(snap[w][r])

\* the line of log[w] that opened the worker's latest cycle
CycleBase(w) ==
  CHOOSE k \in DOMAIN log[w] :
    /\ log[w][k][1] = "PROCESSING"
    /\ \A j \in DOMAIN log[w] : j > k => log[w][j][1] # "PROCESSING"

\* the outcome logged for the j-th record of the worker's latest cycle
OutcomeAt(w, j) == log[w][CycleBase(w) + j][1]

SameKey(p, q) ==
  ToLower(p.nama) = ToLower(q.nama) /\ ToLower(p.email) = ToLower(q.email)

\* the records ahead of position j in the cycle that passed validation and
\* carry the name and email of record j
EarlierSameKey(w, j) ==
  {i \in 1..(j - 1) : ValidGmail[work[w][i].email] /\ SameKey(work[w][i], work[w][j])}

\* C11 (state part): in a cycle, a validated record ends SKIP duplicate exactly
\* when an earlier validated record of the cycle has its name and email, and
\* per name and email at most one record of the cycle reaches the grant step
C11_OnlyFirstOfKeyProceeds ==
  \A w \in Workers :
    InCycle(w) =>
      /\ \A j \in 1..(idx[w] - 1) :
           /\ log[w][CycleBase(w) + j][2] = work[w][j].rowIndex
           /\ ValidGmail[work[w][j].email] =>
                (EarlierSameKey(w, j) # {} <=> OutcomeAt(w, j) = "SKIP duplicate")
      /\ \A i, j \in 1..(idx[w] - 1) :
           (i < j /\ SameKey(work[w][i], work[w][j])
              /\ OutcomeAt(w, i) \in {"GRANTED", "DRY_RUN", "ERROR"})
             => OutcomeAt(w, j) \notin {"GRANTED", "DRY_RUN", "ERROR"}

\* C11 (step part): the step that ends a record as SKIP duplicate makes no
\* Drive call and writes only the LastLog cell of the row
C11_DuplicateMakesNoCall ==
  \A w \in Workers :
    (Len(log'[w]) = Len(log[w]) + 1 /\ log'[w][Len(log'[w])][1] = "SKIP duplicate")
      => /\ calls' = calls
         /\ perms' = perms
         /\ writes' \ writes \subseteq {<<w, log'[w][Len(log'[w])][2], "LastLog">>}

\* C11: within one cycle of one worker, of the validated records with the same
\* lowercased name and email only the first proceeds to resolution; each later
\* one ends SKIP duplicate without a Drive call
C11_DuplicateSkippedFirstProceeds ==
  [](C11_OnlyFirstOfKeyProceeds) /\ [][C11_DuplicateMakesNoCall]_vars

\* C11 witness: in one cycle a record was granted and a later record with its
\* name and email ended SKIP duplicate
C11_Witness ==
  \E w \in Workers :
    /\ InCycle(w)
    /\ \E i, j \in 1..(idx[w] - 1) :
         /\ i < j
         /\ SameKey(work[w][i], work[w][j])
         /\ work[w][i].nama # work[w][j].nama
         /\ OutcomeAt(w, i) \in {"GRANTED", "DRY_RUN"}
         /\ OutcomeAt(w, j) = "SKIP duplicate"

\* the priority band of a record: 1 with a FolderId, 2 without FolderId and
\* isFolderExists not 'false', 3 without FolderId and isFolderExists 'false'
Band(p) ==
  IF p.folderId # EMPTY THEN 1
  ELSE IF ToLower(p.isFolderExists) # S_false THEN 2
  ELSE 3

Elems(list) == {list[i] : i \in DOMAIN list}

\* C19: the prioritized list is a permutation of the shard-filtered eligible
\* records, ordered by band and by sheet row inside a band, and the working set
\* is its first min(length, maxPerRun) records
C19_ThreeBandsThenCap ==
  \A w \in Workers :
    JustRead(w) =>
      LET base == Sharded(Eligible(Participants(snap[w])), shardTotal, ShardIndex(w))
          pri == Prioritized(base)
      IN  /\ Len(pri) = Len(base)
          /\ Elems(pri) = Elems(base)
          /\ \A i, j \in DOMAIN pri :
               i < j =>
                 \/ Band(pri[i]) < Band(pri[j])
                 \/ Band(pri[i]) = Band(pri[j]) /\ pri[i].rowIndex < pri[j].rowIndex
          /\ Len(work[w]) = Min(Len(pri), maxPerRun)
          /\ \A i \in DOMAIN work[w] : work[w][i] = pri[i]

\* C19 witness: a working set that starts with a record of band 1 read after a
\* record of band 3, holds two records, and leaves a record to the cap
C19_Witness ==
  \E w \in Workers :
    /\ JustRead(w)
    /\ Len(work[w]) = maxPerRun
    /\ Len(Sharded(Eligible(Participants(snap[w])), shardTotal, ShardIndex(w))) > maxPerRun
    /\ Band(work[w][1]) = 1
    /\ \E r \in DOMAIN snap[w] :
         /\ r + 1 < work[w][1].rowIndex
         /\ ~Truthy(snap[w][r].isShared)
         /\ ToLower(snap[w][r].isFolderExists) = S_false

(***************************************************************************)
(* Loop mode of one worker, without sharding: run() repeats the cycle      *)
(* read, filter, prioritize, cap, process for ever.  Only the state that   *)
(* a later cycle reads is kept (the sheet, the permissions); a record is   *)
(* processed in one step.                                                  *)
(***************************************************************************)
LoopWorker == 1

\* three rows whose names have no folder in the Drive
SheetLoop ==
  << Row(N_tono, E_a, EMPTY, EMPTY, EMPTY),
     Row(N_tono, E_b, EMPTY, EMPTY, EMPTY),
     Row(N_wati, E_a, EMPTY, EMPTY, EMPTY) >>

LoopSheets == {SheetLoop, SheetBasic}

historyVars == <<cyclesLeft, edits, stats, log, trace, finished, calls, cycleFolders, writes>>

InitLoop ==
  /\ sheet \in LoopSheets
  /\ perms \in InitialPerms
  /\ shardTotal = 0
  /\ dryRun \in BOOLEAN
  /\ maxPerRun = MaxPerRun
  /\ active = {LoopWorker}
  /\ cyclesLeft = 0
  /\ edits = 0
  /\ pc = [w \in Workers |-> "idle"]
  /\ snap = [w \in Workers |-> << >>]
  /\ work = [w \in Workers |-> << >>]
  /\ idx = [w \in Workers |-> 1]
  /\ seen = [w \in Workers |-> {}]
  /\ cur = [w \in Workers |-> NoCurrent]
  /\ stats = [w \in Workers |-> ZeroStats]
  /\ log = [w \in Workers |-> << >>]
  /\ trace = [w \in Workers |-> << >>]
  /\ finished = {}
  /\ calls = {}
  /\ cycleFolders = [w \in Workers |-> {}]
  /\ writes = {}
  /\ hk = << >> /\ hn = 1 /\ hslot = << >>
  /\ RemoteIdle
  /\ ThrottleIdle
  /\ AuxIdle

\* getSpreadsheetDataFlexible and processParticipants up to the loop
LoopStart ==
  /\ pc[LoopWorker] = "idle"
  /\ LET working == WorkingSet(Participants(sheet), shardTotal, ShardIndex(LoopWorker), maxPerRun)
     IN  /\ snap' = [snap EXCEPT ![LoopWorker] = sheet]
         /\ work' = [work EXCEPT ![LoopWorker] = working]
         /\ pc' = [pc EXCEPT ![LoopWorker] = IF Len(working) = 0 THEN "summary" ELSE "validate"]
  /\ idx' = [idx EXCEPT ![LoopWorker] = 1]
  /\ seen' = [seen EXCEPT ![LoopWorker] = {}]
  /\ UNCHANGED <<sheet, perms, shardTotal, dryRun, maxPerRun, active, cur, historyVars, hashVars, remoteVars, throttleVars, auxVars>>

\* the cells of row rowIndex after the status and LastLog writes of an outcome
LoopMark(rows, rowIndex, status, marker) ==
  SetCell(SetCell(rows, rowIndex, "isShared", status), rowIndex, "lastLog", marker)

\* one iteration of the for loop of processParticipants
LoopRecord ==
  /\ pc[LoopWorker] = "validate"
  /\ LET w == LoopWorker
         p == Current(w)
         reason == EmailSkipReason(p.email)
         searched == ~Truthy(p.folderId)
     IN
       IF reason # "OK" THEN
         /\ sheet' = LoopMark(sheet, p.rowIndex, S_FALSE, "SKIP: " \o reason)
         /\ UNCHANGED <<seen, perms>>
       ELSE IF DedupKey(p) \in seen[w] THEN
         /\ sheet' = SetCell(sheet, p.rowIndex, "lastLog", "SKIP: Duplicate entry")
         /\ UNCHANGED <<seen, perms>>
       ELSE
         /\ seen' = [seen EXCEPT ![w] = @ \cup {DedupKey(p)}]
         /\ IF ToLower(p.isShared) = S_true THEN
              /\ sheet' = SetCell(sheet, p.rowIndex, "lastLog", "SKIP: Already shared")
              /\ perms' = perms
            ELSE
              \E folderId \in (IF searched THEN findFolderByName(p.nama) ELSE {p.folderId}) :
                IF ~Truthy(folderId) THEN
                  /\ sheet' = SetCell(SetCell(sheet, p.rowIndex, "isFolderExists", S_FALSE),
                                      p.rowIndex, "lastLog", "FOLDER NOT FOUND")
                  /\ perms' = perms
                ELSE
                  LET found == IF searched
                               THEN SetCell(SetCell(sheet, p.rowIndex, "isFolderExists", S_TRUE),
                                            p.rowIndex, "folderId", folderId)
                               ELSE SetCell(sheet, p.rowIndex, "isFolderExists", S_TRUE)
                  IN  \E listed \in ListOutcomes :
                        IF hasPermission(folderId, p.email, listed) THEN
                          /\ sheet' = LoopMark(found, p.rowIndex, S_TRUE,
                                               "SKIP: Already has reader access")
                          /\ perms' = perms
                        ELSE IF grantCallsCreate(dryRun) THEN
                          \E created \in CreateOutcomes :
                            IF created = "ok" THEN
                              /\ sheet' = LoopMark(found, p.rowIndex, S_TRUE, GrantMarker(dryRun))
                              /\ perms' = perms \cup {<<folderId, p.email>>}
                            ELSE
                              /\ sheet' = LoopMark(found, p.rowIndex, S_FALSE, "ERROR")
                              /\ perms' = perms
                        ELSE
                          /\ sheet' = LoopMark(found, p.rowIndex, S_TRUE, GrantMarker(dryRun))
                          /\ perms' = perms
  /\ idx' = [idx EXCEPT ![LoopWorker] = @ + 1]
  /\ pc' = [pc EXCEPT ![LoopWorker] =
              IF idx[LoopWorker] < Len(work[LoopWorker]) THEN "validate" ELSE "summary"]
  /\ UNCHANGED <<shardTotal, dryRun, maxPerRun, active, snap, work, cur, historyVars, hashVars, remoteVars, throttleVars, auxVars>>

\* the summary, then sleepWithCountdown(pollSec) until the next cycle
LoopEnd ==
  /\ pc[LoopWorker] = "summary"
  /\ pc' = [pc EXCEPT ![LoopWorker] = "idle"]
  /\ UNCHANGED <<sheet, perms, shardTotal, dryRun, maxPerRun, active, snap, work, idx, seen,
                 cur, historyVars, hashVars, remoteVars, throttleVars, auxVars>>

NextLoop == LoopStart \/ LoopRecord \/ LoopEnd

\* while (true) never ends and every await of a cycle returns
SpecLoop == InitLoop /\ [][NextLoop]_vars /\ WF_vars(NextLoop)

\* the data rows of the sheets of LoopSheets
LoopRows == 1..Len(SheetLoop)

\* row r was eligible at the read of the running cycle and the cap left it out
CutOffByCap(r) ==
  /\ pc[LoopWorker] = "validate"
  /\ r + 1 \in Rows(Eligible(Participants(snap[LoopWorker])))
  /\ r + 1 \notin Rows(work[LoopWorker])

\* row r is in the working set of the running cycle
InWorkingSet(r) ==
  pc[LoopWorker] = "validate" /\ r + 1 \in Rows(work[LoopWorker])

\* C20: in loop mode every record that the cap cuts off in a cycle is in the
\* working set of a later cycle
C20_CutOffRecordProcessedLater ==
  \A r \in LoopRows : [](CutOffByCap(r) => <>InWorkingSet(r))

(***************************************************************************)
(* Folder resolution: the mapping lookup of findFolderByName and the name  *)
(* variations it tries                                                     *)
(***************************************************************************)
N_Siti == <<83, 105, 116, 105>>                   \* "Siti"
N_SITI == <<83, 73, 84, 73>>                      \* "SITI"
N_DrSiti == <<68, 114, 32, 83, 105, 116, 105>>    \* "Dr Siti"
N_dr == <<100, 114>>                              \* "dr"

ToUpper(s) == [i \in DOMAIN s |-> IF s[i] \in 97..122 THEN s[i] - 32 ELSE s[i]]

\* \w of a regular expression
IsWordChar(c) == IsLetter(c) \/ IsDigit(c) \/ c = 95

\* s.replace(/\s+/g, ' ')
RECURSIVE CollapseSpaces(_)
CollapseSpaces(s) ==
  IF s = << >> THEN << >>
  ELSE IF IsWhite(Head(s)) THEN <<32>> \o CollapseSpaces(TrimStart(Tail(s)))
  ELSE <<Head(s)>> \o CollapseSpaces(Tail(s))

\* s.replace(/\s+/g, ' ').trim()
NormalizeSpaces(s) == Trim(CollapseSpaces(s))

\* the length of the run of word characters s starts with
RECURSIVE WordRunLen(_)
WordRunLen(s) ==
  IF s = << >> \/ ~IsWordChar(Head(s)) THEN 0 ELSE 1 + WordRunLen(Tail(s))

\* s.replace(/\b(w1|w2|...)\b/gi, ''): whole words of the list are removed
RECURSIVE StripWords(_, _)
StripWords(s, words) ==
  IF s = << >> THEN << >>
  ELSE IF IsWordChar(Head(s)) THEN
    LET n == WordRunLen(s)
        run == SubSeq(s, 1, n)
    IN  (IF ToLower(run) \in words THEN << >> ELSE run)
          \o StripWords(SubSeq(s, n + 1, Len(s)), words)
  ELSE <<Head(s)>> \o StripWords(Tail(s), words)

\* muhammad|moh|drs|dr|prof
SearchTitles ==
  { <<109, 117, 104, 97, 109, 109, 97, 100>>, <<109, 111, 104>>, <<100, 114, 115>>,
    <<100, 114>>, <<112, 114, 111, 102>> }

\* muhammad|moh|drs|dr|prof|hj|h
MappingTitles == SearchTitles \cup { <<104, 106>>, <<104>> }

\* s.replace(/[\.,-]/g, ' ')
ReplacePunctuation(s) == [i \in DOMAIN s |-> IF s[i] \in {46, 44, 45} THEN 32 ELSE s[i]]

\* the elements of a sequence in the order of their first occurrence (a Set)
RECURSIVE Unique(_)
Unique(seq) ==
  IF seq = << >> THEN << >>
  ELSE LET front == Unique(SubSeq(seq, 1, Len(seq) - 1))
           last == seq[Len(seq)]
       IN  IF \E i \in DOMAIN front : front[i] = last THEN front ELSE Append(front, last)

NonEmpty(seq) == SelectSeq(seq, LAMBDA v : Len(v) > 0)

\* _createSearchVariations(name)
CreateSearchVariations(name) ==
  LET normalized == NormalizeSpaces(name)
      withoutPrefixes == NormalizeSpaces(StripWords(name, MappingTitles))
      withoutSpecialChars == NormalizeSpaces(ReplacePunctuation(name))
  IN  NonEmpty(Unique(
        <<name, ToLower(name), ToUpper(name), normalized, ToLower(normalized)>>
        \o (IF Truthy(withoutPrefixes) /\ withoutPrefixes # name
            THEN <<withoutPrefixes, ToLower(withoutPrefixes)>> ELSE << >>)
        \o (IF Truthy(withoutSpecialChars) /\ withoutSpecialChars # name
            THEN <<withoutSpecialChars, ToLower(withoutSpecialChars)>> ELSE << >>)))

\* searchVariations of the global search: an array, duplicates are kept
GlobalSearchVariations(targetName) ==
  NonEmpty(<<targetName, ToLower(targetName), ToUpper(targetName),
             NormalizeSpaces(targetName), Trim(StripWords(targetName, SearchTitles))>>)

\* the mapping written by the folder mapper: every folder name and its
\* lowercase form lead to the folder id
FolderMapping ==
  [k \in {f.name : f \in DriveFolders} \cup {ToLower(f.name) : f \in DriveFolders} |->
     (CHOOSE f \in DriveFolders : ToLower(f.name) = ToLower(k)).id]

\* a mapping file holding an empty object
EmptyMapping == [k \in {} |-> EMPTY]

\* this.folderMapping[key]; undefined is EMPTY
MapGet(m, key) == IF key \in DOMAIN m THEN m[key] ELSE EMPTY

\* a || b on strings
OrElse(a, b) == IF Truthy(a) THEN a ELSE b

\* a resolution that does not consult the mapping
MappedLookupSkipped(m, targetName) == EMPTY

\* the mapping lookup of findFolderByName: exact, lowercase, then the variations
MappedLookup(m, targetName) ==
  LET direct == OrElse(MapGet(m, targetName), MapGet(m, ToLower(targetName)))
      probe(v) == OrElse(MapGet(m, v), MapGet(m, ToLower(v)))
      hits == SelectSeq(CreateSearchVariations(targetName), LAMBDA v : Truthy(probe(v)))
  IN  IF Truthy(direct) THEN direct
      ELSE IF hits # << >> THEN probe(Head(hits))
      ELSE EMPTY

(***************************************************************************)
(* One remote operation: findFolderByName, hasPermission or                *)
(* grantPermission, call by call.  Time is left out: every call goes       *)
(* through throttle(), a backoff is counted and not measured, and the      *)
(* timer of the fallback search may fire between any two calls.            *)
(***************************************************************************)
R_rateLimitExceeded ==
  <<114, 97, 116, 101, 76, 105, 109, 105, 116, 69, 120, 99, 101, 101, 100, 101, 100>>
R_userRateLimitExceeded ==
  <<117, 115, 101, 114, 82, 97, 116, 101, 76, 105, 109, 105, 116, 69, 120, 99, 101, 101,
    100, 101, 100>>
R_sharingRateLimitExceeded ==
  <<115, 104, 97, 114, 105, 110, 103, 82, 97, 116, 101, 76, 105, 109, 105, 116, 69, 120,
    99, 101, 101, 100, 101, 100>>
R_forbidden == <<102, 111, 114, 98, 105, 100, 100, 101, 110>>          \* "forbidden"
R_backendError == <<98, 97, 99, 107, 101, 110, 100, 69, 114, 114, 111, 114>>

ScopeRoot == <<80, 45, 114, 111, 111, 116>>      \* "P-root", the parent folder
K_1 == <<75, 45, 49>>                            \* "K-1", a regency folder

SearchMaxAttempts == 3
ListMaxAttempts == 5
CreateMaxAttempts == 6
MaxDepth == 3

MaxNodeTries == 3    \* listings of one node of the scoped search that are followed
MaxPages == 2        \* pages one listing of children is answered in

\* s.includes(sub)
Contains(s, sub) ==
  \E i \in 0..(Len(s) - Len(sub)) : SubSeq(s, i + 1, i + Len(sub)) = sub

\* the errors a Drive call is answered with
ErrorAnswers ==
  { [status |-> 429, reason |-> EMPTY],
    [status |-> 403, reason |-> R_userRateLimitExceeded],
    [status |-> 403, reason |-> R_forbidden],
    [status |-> 500, reason |-> R_backendError] }

\* every 403 taken for a rate limit
isRetryableAnyForbidden(error) == error.status = 429 \/ error.status = 403

isRetryableRateLimit(error) ==
  \/ error.status = 429
  \/ /\ error.status = 403
     /\ \/ Contains(error.reason, R_rateLimitExceeded)
        \/ Contains(error.reason, R_userRateLimitExceeded)
        \/ Contains(error.reason, R_sharingRateLimitExceeded)

\* error.__op = op; error.__ctx = ctx; return error
wrapError(op, ctx, error) ==
  [status |-> error.status, reason |-> error.reason, op |-> op, ctx |-> ctx]

Returned(v) == [kind |-> "returned", value |-> v]
Threw(e) == [kind |-> "threw", error |-> e]

\* the folders of the Drive below the parent folder: children of every node
DriveChildren ==
  [n \in {ScopeRoot, K_1, F_siti, F_rudy} |->
     IF n = ScopeRoot THEN <<[id |-> K_1, name |-> <<74, 97, 119, 97>>]>>
     ELSE IF n = K_1 THEN <<[id |-> F_siti, name |-> <<83, 105, 116, 105>>],
                            [id |-> F_rudy, name |-> <<82, 117, 100, 121>>]>>
     ELSE << >>]

\* the answers of the global search: up to two folders of the Drive
SearchAnswers ==
  {<< >>} \cup {<<f>> : f \in DriveFolders}
          \cup {<<p[1], p[2]>> : p \in {q \in DriveFolders \X DriveFolders : q[1] # q[2]}}

\* the answers of permissions.list
PermissionAnswers ==
  { {}, {[emailAddress |-> E_B, role |-> "reader"]},
    {[emailAddress |-> E_b, role |-> "writer"]} }

\* the names findFolderByName is called with
ResolveNames == {EMPTY, N_Siti, N_SITI, N_DrSiti, N_tono, N_dr}

\* files.find(...) of the global search: an exact match first, then a fuzzy one
GlobalMatch(files, targetLower) ==
  LET exact == SelectSeq(files, LAMBDA f : ToLower(f.name) = targetLower)
      fuzzy == SelectSeq(files, LAMBDA f : \/ Contains(ToLower(f.name), targetLower)
                                           \/ Contains(targetLower, ToLower(f.name)))
  IN  IF exact # << >> THEN Head(exact).id
      ELSE IF fuzzy # << >> THEN Head(fuzzy).id
      ELSE EMPTY

\* children.find(...) of the scoped search
ScopedHit(children, targetLower) ==
  LET hits == SelectSeq(children, LAMBDA f : ToLower(f.name) = targetLower)
  IN  IF hits # << >> THEN Head(hits).id ELSE EMPTY

\* the catch of the fallback search thrown to the caller
FallbackCatchRethrows(error) == Threw(error)

\* catch (error) { ...; return null; } of the fallback search
FallbackCatch(error) == Returned(EMPTY)

\* the catch of hasPermission around its retry loop
HasPermissionCatch(error) == Returned(FALSE)

\* the retry condition with the ceiling itself allowed
RetryAllowedInclusive(attempt, maxAttempts) == attempt <= maxAttempts

\* attempt < maxAttempts of the retry condition
RetryAllowed(attempt, maxAttempts) == attempt < maxAttempts

MaxAttemptsOf(op) ==
  IF op = "files.list" THEN SearchMaxAttempts
  ELSE IF op = "permissions.list" THEN ListMaxAttempts
  ELSE CreateMaxAttempts

\* the rate-limit errors among the answers; kept by the history of a loop only
RateLimitErrors ==
  {e \in ErrorAnswers :
     \/ e.status = 429
     \/ e.status = 403 /\ e.reason \in {R_rateLimitExceeded, R_userRateLimitExceeded,
                                        R_sharingRateLimitExceeded}}

NewLoop(op) == [NoLoop EXCEPT !.op = op]

\* the loop after one more call was issued
Tried(l) == [l EXCEPT !.tries = @ + 1, !.afterFatal = IF l.fatal THEN @ + 1 ELSE @]

\* the catch block of a retry loop: attempt++ and the decision to sleep and retry
Retries(l, e) ==
  isRetryableRateLimit(e) /\ RetryAllowed(l.attempt + 1, MaxAttemptsOf(l.op))

Caught(l, e) ==
  [Tried(l) EXCEPT !.attempt = @ + 1,
                   !.sleeps = IF Retries(l, e) THEN @ + 1 ELSE @,
                   !.allRetryable = @ /\ e \in RateLimitErrors,
                   !.fatal = @ \/ e \notin RateLimitErrors]

Answered(l) == [Tried(l) EXCEPT !.allRetryable = FALSE]

Closed(l, how) ==
  [op |-> l.op, tries |-> l.tries, sleeps |-> l.sleeps, allRetryable |-> l.allRetryable,
   fatal |-> l.fatal, afterFatal |-> l.afterFatal, end |-> how]

RFileId == F_siti
REmail == E_b
RContext == [fileId |-> RFileId, email |-> REmail, role |-> "reader"]

WorkersIdle ==
  /\ sheet = SheetBasic /\ perms = {} /\ shardTotal = 0 /\ maxPerRun = MaxPerRun
  /\ active = {} /\ cyclesLeft = 0 /\ edits = 0
  /\ pc = [w \in Workers |-> "idle"]
  /\ snap = [w \in Workers |-> << >>]
  /\ work = [w \in Workers |-> << >>]
  /\ idx = [w \in Workers |-> 1]
  /\ seen = [w \in Workers |-> {}]
  /\ cur = [w \in Workers |-> NoCurrent]
  /\ stats = [w \in Workers |-> ZeroStats]
  /\ log = [w \in Workers |-> << >>]
  /\ trace = [w \in Workers |-> << >>]
  /\ finished = {}
  /\ calls = {}
  /\ cycleFolders = [w \in Workers |-> {}]
  /\ writes = {}

InitRemote ==
  /\ WorkersIdle
  /\ hk = << >> /\ hn = 1 /\ hslot = << >>
  /\ ThrottleIdle
  /\ AuxIdle
  /\ rop \in {"find", "list", "create"}
  /\ IF rop = "find"
     THEN /\ rname \in ResolveNames
          /\ rmap \in {<< >>, <<EmptyMapping>>, <<FolderMapping>>}
          /\ rparent \in BOOLEAN
          /\ dryRun = FALSE
     ELSE /\ rname = EMPTY /\ rmap = << >> /\ rparent = FALSE
          /\ dryRun \in (IF rop = "create" THEN BOOLEAN ELSE {FALSE})
  /\ rpc = "start" /\ rvar = 0 /\ rqueue = << >> /\ rloop = NoLoop /\ rloops = {}
  /\ rnode = << >> /\ rcalls = 0 /\ rresult = Pending /\ rtimedOut = FALSE

\* the value the internal search ends with reaches the caller unless the timer won
Settle(v) == IF rresult = Pending THEN Returned(v) ELSE rresult

\* the synchronous start of the operation, up to its first Drive call
RBegin ==
  /\ rpc = "start"
  /\ IF rop = "find" THEN
       LET mapped == IF rmap # << >> THEN MappedLookup(rmap[1], rname) ELSE EMPTY
       IN  IF ~Truthy(rname) \/ Truthy(mapped) THEN
             /\ rresult' = Returned(mapped)
             /\ rpc' = "done"
             /\ UNCHANGED <<rvar, rqueue, rloop, rnode>>
           ELSE IF ~rparent THEN
             /\ rpc' = "search"
             /\ rvar' = 1
             /\ rloop' = NewLoop("files.list")
             /\ UNCHANGED <<rqueue, rnode, rresult>>
           ELSE
             /\ rpc' = "bfs"
             /\ rqueue' = <<[id |-> ScopeRoot, depth |-> 0]>>
             /\ rnode' = [n \in DOMAIN DriveChildren |-> 0]
             /\ UNCHANGED <<rvar, rloop, rresult>>
     ELSE IF rop = "create" /\ dryRun THEN
       /\ rresult' = Returned("DRY_RUN")
       /\ rpc' = "done"
       /\ UNCHANGED <<rvar, rqueue, rloop, rnode>>
     ELSE
       /\ rpc' = "call"
       /\ rloop' = NewLoop(IF rop = "list" THEN "permissions.list" ELSE "permissions.create")
       /\ UNCHANGED <<rvar, rqueue, rnode, rresult>>
  /\ UNCHANGED <<rop, rname, rmap, rparent, rloops, rcalls, rtimedOut>>
  /\ UNCHANGED <<workerVars, hashVars, throttleVars, auxVars>>

\* the global search goes on to its next variation, or ends without a match
NextVariation(l, how) ==
  /\ rloops' = rloops \cup {Closed(l, how)}
  /\ IF rvar < Len(GlobalSearchVariations(rname))
     THEN /\ rvar' = rvar + 1
          /\ rloop' = NewLoop("files.list")
          /\ UNCHANGED <<rpc, rresult>>
     ELSE /\ rpc' = "done"
          /\ rresult' = Settle(EMPTY)
          /\ rloop' = NoLoop
          /\ UNCHANGED rvar

\* one files.list of the global search and the handling of its answer
RSearchCall ==
  /\ rpc = "search"
  /\ rcalls' = rcalls + 1
  /\ \/ \E files \in SearchAnswers :
          LET match == GlobalMatch(files, ToLower(rname))
          IN  IF Truthy(match) THEN
                /\ rresult' = Settle(match)
                /\ rpc' = "done"
                /\ rloops' = rloops \cup {Closed(Answered(rloop), "ok")}
                /\ rloop' = NoLoop
                /\ UNCHANGED rvar
              ELSE NextVariation(Answered(rloop), "ok")
     \/ \E e \in ErrorAnswers :
          LET l == Caught(rloop, e)
          IN  IF Retries(rloop, e) /\ l.attempt < SearchMaxAttempts THEN  \* and the while
                /\ rloop' = l
                /\ UNCHANGED <<rpc, rvar, rloops, rresult>>
              ELSE NextVariation(l, IF e \in RateLimitErrors THEN "exhausted" ELSE "fatal")
  /\ UNCHANGED <<rop, rname, rmap, rparent, rqueue, rnode, rtimedOut, dryRun>>
  /\ UNCHANGED <<sheet, perms, shardTotal, maxPerRun, active, cyclesLeft, edits, pc, snap,
                 work, idx, seen, cur, stats, log, trace, finished, calls, cycleFolders,
                 writes, hashVars, throttleVars, auxVars>>

\* queue entries deeper than maxDepth are passed over
RECURSIVE SkipDeep(_)
SkipDeep(queue) ==
  IF queue # << >> /\ Head(queue).depth > MaxDepth THEN SkipDeep(Tail(queue)) ELSE queue

\* the scoped search goes on with the queue, or ends without a match
Continue(queue) ==
  /\ rqueue' = SkipDeep(queue)
  /\ IF SkipDeep(queue) = << >>
     THEN rpc' = "done" /\ rresult' = Settle(EMPTY)
     ELSE UNCHANGED <<rpc, rresult>>

\* one node of the scoped search: its children are listed page by page
RListChildren ==
  /\ rpc = "bfs"
  /\ rqueue # << >>
  /\ LET current == Head(rqueue)
         rest == Tail(rqueue)
         children == DriveChildren[current.id]
     IN  /\ rnode' = [rnode EXCEPT ![current.id] = @ + 1]
         /\ \E pages \in 1..MaxPages :
              /\ rcalls' = rcalls + pages
              /\ \/ LET hit == ScopedHit(children, ToLower(rname))
                    IN  IF Truthy(hit) THEN
                          /\ rresult' = Settle(hit)
                          /\ rpc' = "done"
                          /\ UNCHANGED rqueue
                        ELSE IF current.depth < MaxDepth THEN
                          Continue(rest \o [i \in DOMAIN children |->
                                              [id |-> children[i].id,
                                               depth |-> current.depth + 1]])
                        ELSE Continue(rest)
                 \/ \E e \in ErrorAnswers :
                      IF isRetryableRateLimit(e) THEN
                        /\ rnode[current.id] < MaxNodeTries
                        /\ Continue(Append(rest, current))
                      ELSE Continue(rest)
  /\ UNCHANGED <<rop, rname, rmap, rparent, rvar, rloop, rloops, rtimedOut>>
  /\ UNCHANGED <<workerVars, hashVars, throttleVars, auxVars>>

\* one permissions.list or permissions.create and the handling of its answer
RPermissionCall ==
  /\ rpc = "call"
  /\ rcalls' = rcalls + 1
  /\ \/ /\ rloops' = rloops \cup {Closed(Answered(rloop), "ok")}
        /\ rloop' = NoLoop
        /\ rpc' = "done"
        /\ IF rop = "list"
           THEN \E permissions \in PermissionAnswers :
                  rresult' = Returned(\E q \in permissions :
                                        /\ ToLower(q.emailAddress) = ToLower(REmail)
                                        /\ q.role = "reader")
           ELSE rresult' = Returned("data")
     \/ \E e \in ErrorAnswers :
          LET l == Caught(rloop, e)
          IN  IF Retries(rloop, e) THEN
                /\ rloop' = l
                /\ UNCHANGED <<rpc, rloops, rresult>>
              ELSE
                /\ rloops' = rloops \cup
                     {Closed(l, IF e \in RateLimitErrors THEN "exhausted" ELSE "fatal")}
                /\ rloop' = NoLoop
                /\ rpc' = "done"
                /\ rresult' =
                     IF rop = "list"
                     THEN HasPermissionCatch(wrapError("drive.permissions.list", RContext, e))
                     ELSE Threw(wrapError("drive.permissions.create", RContext, e))
  /\ UNCHANGED <<rop, rname, rmap, rparent, rvar, rqueue, rnode, rtimedOut>>
  /\ UNCHANGED <<workerVars, hashVars, throttleVars, auxVars>>

\* the timer of the fallback search fires; the internal search is not stopped
RTimeout ==
  /\ rop = "find"
  /\ rpc \in {"search", "bfs"}
  /\ rresult = Pending
  /\ rresult' = FallbackCatch("timeout")
  /\ rtimedOut' = TRUE
  /\ UNCHANGED <<rop, rname, rmap, rparent, rpc, rvar, rqueue, rloop, rloops, rnode, rcalls>>
  /\ UNCHANGED <<workerVars, hashVars, throttleVars, auxVars>>

NextRemote == RBegin \/ RSearchCall \/ RListChildren \/ RPermissionCall \/ RTimeout

SpecRemote == InitRemote /\ [][NextRemote]_vars

(***************************************************************************)
(* C12: with the folder mapping loaded and holding the requested name      *)
(* verbatim, findFolderByName returns the mapped id and issues no Drive    *)
(* call: no fallback search is started and throttle() is never entered.    *)
(***************************************************************************)
MappedVerbatim ==
  rop = "find" /\ Truthy(rname) /\ rmap # << >> /\ rname \in DOMAIN rmap[1]

C12_MappedNameNeedsNoCall ==
  MappedVerbatim =>
    /\ rcalls = 0
    /\ rpc \in {"start", "done"}
    /\ ~rtimedOut
    /\ rpc = "done" => rresult = Returned(rmap[1][rname])

\* a verbatim name was resolved from the mapping
C12_Witness ==
  MappedVerbatim /\ rname = N_Siti /\ rpc = "done" /\ rresult = Returned(F_siti)

(***************************************************************************)
(* C13: findFolderByName never throws.  Whatever the mapping lookup and    *)
(* the remote search meet (no match, retryable or other errors at any      *)
(* call, the timer firing), the result is a folder id or not-found         *)
(* (null), and it is not-found when the timer fired first.                 *)
(***************************************************************************)
FolderIds == {f.id : f \in DriveFolders} \cup {K_1}

C13_FindNeverThrows ==
  rop = "find" =>
    /\ rresult.kind \in {"pending", "returned"}
    /\ rresult.kind = "returned" => rresult.value \in FolderIds \cup {EMPTY}
    /\ rtimedOut => rresult = Returned(EMPTY)
    /\ rpc = "done" => rresult.kind = "returned"

\* the timer fired during a search that had met errors, and the search ended later
C13_Witness ==
  /\ rop = "find" /\ rtimedOut /\ rpc = "done" /\ rresult = Returned(EMPTY)
  /\ \E l \in rloops : l.end = "fatal"
  /\ \E l \in rloops : l.end = "exhausted"

(***************************************************************************)
(* C14: a retry loop whose every attempt is answered with a retryable      *)
(* rate-limit error makes exactly as many attempts as its ceiling and      *)
(* none after: 3 for a query of the folder search, 5 for                   *)
(* permissions.list, 6 for permissions.create.                             *)
(***************************************************************************)
ClaimedCeiling(op) ==
  IF op = "files.list" THEN 3 ELSE IF op = "permissions.list" THEN 5 ELSE 6

GaveUpAtCeiling ==
  \E l \in rloops :
    /\ l.op \in {"permissions.list", "permissions.create"}
    /\ l.allRetryable
    /\ l.tries = ClaimedCeiling(l.op)

C15_CeilingErrorReachesCaller ==
  GaveUpAtCeiling =>
    /\ rresult.kind = "threw"
    /\ rresult.error.op = (IF rop = "list" THEN "drive.permissions.list"
                           ELSE "drive.permissions.create")
    /\ rresult.error.ctx = RContext
    /\ rresult.error.status \in {429, 403}

(***************************************************************************)
(* C16: an answer that is not a rate-limit error (not 429, not 403 with a  *)
(* rate-limit reason) ends the retry loop with that attempt: no backoff    *)
(* follows it and the call is not issued again, so a call whose first      *)
(* answer is such an error is attempted exactly once.                      *)
(***************************************************************************)
C16_NonRetryableEndsAtOnce ==
  /\ ~rloop.fatal
  /\ rloop.afterFatal = 0
  /\ \A l \in rloops :
       /\ l.afterFatal = 0
       /\ l.fatal => l.end = "fatal" /\ l.sleeps = l.tries - 1
       /\ l.fatal /\ l.tries = 1 => l.sleeps = 0

\* permissions.create failed with an error of another kind on its first attempt
C16_Witness ==
  /\ rop = "create" /\ rpc = "done" /\ rcalls = 1 /\ rresult.kind = "threw"
  /\ rresult.error.status \in {500, 403}
  /\ \E l \in rloops : l.fatal /\ l.tries = 1 /\ l.sleeps = 0

(***************************************************************************)
(* The asynchronous flows of one worker on a clock (milliseconds): the     *)
(* loop of processParticipants and the internal folder search it starts,   *)
(* which Promise.race does not stop when the timer wins.  Every Drive call *)
(* is preceded by throttle(); answers carry no errors here.                *)
(***************************************************************************)
ThrottleMs == 2500
ThrottleJitterMs == 400
TimeoutMs == 30000
PauseJitterMs == 200

CallFastMs == 200       \* a Drive call answered quickly
CallSlowMs == 16000     \* a Drive call answered slowly
WriteMs == 300          \* the sheet writes that end a record

\* the records of the cycle: the first is resolved by name, the second has its FolderId
TimedRows ==
  << [nama |-> N_tono, folderId |-> EMPTY],
     [nama |-> N_Siti, folderId |-> F_siti] >>

Jitters == {0, ThrottleJitterMs - 1}
PauseJitters == {0, PauseJitterMs - 1}
CallDurations == {CallFastMs, CallSlowMs}

NoFlow == [rec |-> 0, step |-> "done", wake |-> 0, op |-> "", query |-> 0, next |-> ""]

\* the last two Drive calls started, oldest first
LastTwo(starts) == IF Len(starts) > 2 THEN Tail(starts) ELSE starts

\* a call of the flow starts now: this.lastApiCallAt = Date.now(), then the request
Starts(f, dur) ==
  [flow |-> [f EXCEPT !.step = "call", !.wake = tnow + dur],
   last |-> tnow,
   starts |-> LastTwo(Append(tstarts, [at |-> tnow, rec |-> f.rec, op |-> f.op]))]

\* throttle() entered now by a flow: it sleeps when the last call is too recent
Throttled(f, jitter, dur) ==
  LET minDelay == ThrottleMs
      elapsed == tnow - tlast
  IN  IF elapsed < minDelay
      THEN [flow |-> [f EXCEPT !.step = "sleep", !.wake = tnow + (minDelay - elapsed) + jitter],
            last |-> tlast,
            starts |-> tstarts]
      ELSE Starts(f, dur)

InitThrottle ==
  /\ WorkersIdle
  /\ dryRun = FALSE
  /\ hk = << >> /\ hn = 1 /\ hslot = << >>
  /\ RemoteIdle
  /\ AuxIdle
  /\ tnow = ThrottleMs
  /\ tlast = 0
  /\ tmain = [NoFlow EXCEPT !.rec = 1, !.step = "start"]
  /\ tsearch = NoFlow
  /\ tstarts = << >>

\* the main flow begins record i, up to its first await
BeginRecord(i, jitter, dur) ==
  IF i > Len(TimedRows) THEN
    /\ tmain' = [NoFlow EXCEPT !.rec = i]
    /\ UNCHANGED <<tsearch, tlast, tstarts>>
  ELSE IF ~Truthy(TimedRows[i].folderId) THEN
    LET t == Throttled([NoFlow EXCEPT !.rec = i, !.op = "files.list", !.query = 1],
                       jitter, dur)
    IN  /\ tsearch' = t.flow
        /\ tlast' = t.last
        /\ tstarts' = t.starts
        /\ tmain' = [NoFlow EXCEPT !.rec = i, !.step = "search", !.wake = tnow + TimeoutMs]
  ELSE
    LET t == Throttled([NoFlow EXCEPT !.rec = i, !.op = "permissions.list"], jitter, dur)
    IN  /\ tmain' = t.flow
        /\ tlast' = t.last
        /\ tstarts' = t.starts
        /\ UNCHANGED tsearch

\* the cycle starts with its first record
TStart ==
  /\ tmain.step = "start"
  /\ \E jitter \in Jitters, dur \in CallDurations : BeginRecord(tmain.rec, jitter, dur)
  /\ UNCHANGED tnow
  /\ UNCHANGED <<workerVars, hashVars, remoteVars, auxVars>>

\* the sleep of throttle() ends in the main flow
TMainWake ==
  /\ tmain.step = "sleep" /\ tmain.wake = tnow
  /\ \E dur \in CallDurations :
       LET t == Starts(tmain, dur)
       IN  tmain' = t.flow /\ tlast' = t.last /\ tstarts' = t.starts
  /\ UNCHANGED <<tnow, tsearch>>
  /\ UNCHANGED <<workerVars, hashVars, remoteVars, auxVars>>

\* permissions.list or permissions.create is answered in the main flow
TMainResponse ==
  /\ tmain.step = "call" /\ tmain.wake = tnow
  /\ IF tmain.op = "permissions.list" THEN
       \E jitter \in Jitters, dur \in CallDurations :
         LET t == Throttled([tmain EXCEPT !.op = "permissions.create"], jitter, dur)
         IN  tmain' = t.flow /\ tlast' = t.last /\ tstarts' = t.starts
     ELSE
       /\ tmain' = [tmain EXCEPT !.step = "write", !.wake = tnow + WriteMs, !.next = "pause"]
       /\ UNCHANGED <<tlast, tstarts>>
  /\ UNCHANGED <<tnow, tsearch>>
  /\ UNCHANGED <<workerVars, hashVars, remoteVars, auxVars>>

\* the sheet writes of the record are done: the pause between records, or the next
\* record at once after a folder that was not found
TMainWritten ==
  /\ tmain.step = "write" /\ tmain.wake = tnow
  /\ IF tmain.next = "pause" THEN
       /\ \E jitter \in PauseJitters :
            tmain' = [tmain EXCEPT !.step = "pause",
                                   !.wake = tnow + (ThrottleMs \div 2) + jitter]
       /\ UNCHANGED <<tsearch, tlast, tstarts>>
     ELSE
       \E jitter \in Jitters, dur \in CallDurations : BeginRecord(tmain.rec + 1, jitter, dur)
  /\ UNCHANGED tnow
  /\ UNCHANGED <<workerVars, hashVars, remoteVars, auxVars>>

\* the pause between records is over
TMainResumes ==
  /\ tmain.step = "pause" /\ tmain.wake = tnow
  /\ \E jitter \in Jitters, dur \in CallDurations : BeginRecord(tmain.rec + 1, jitter, dur)
  /\ UNCHANGED tnow
  /\ UNCHANGED <<workerVars, hashVars, remoteVars, auxVars>>

\* the sleep of throttle() ends in the search flow
TSearchWake ==
  /\ tsearch.step = "sleep" /\ tsearch.wake = tnow
  /\ \E dur \in CallDurations :
       LET t == Starts(tsearch, dur)
       IN  tsearch' = t.flow /\ tlast' = t.last /\ tstarts' = t.starts
  /\ UNCHANGED <<tnow, tmain>>
  /\ UNCHANGED <<workerVars, hashVars, remoteVars, auxVars>>

\* the main flow awaits the race of this search
Awaited == tmain.step = "search" /\ tmain.rec = tsearch.rec

\* files.list of the search flow is answered: a match ends the search, no match
\* leads to the next variation or to the end of the search
TSearchResponse ==
  /\ tsearch.step = "call" /\ tsearch.wake = tnow
  /\ \/ /\ tsearch' = [tsearch EXCEPT !.step = "done"]
        /\ IF Awaited
           THEN \E jitter \in Jitters, dur \in CallDurations :
                  LET t == Throttled([NoFlow EXCEPT !.rec = tmain.rec,
                                                    !.op = "permissions.list"], jitter, dur)
                  IN  tmain' = t.flow /\ tlast' = t.last /\ tstarts' = t.starts
           ELSE UNCHANGED <<tmain, tlast, tstarts>>
     \/ IF tsearch.query < Len(GlobalSearchVariations(TimedRows[tsearch.rec].nama)) THEN
          /\ \E jitter \in Jitters, dur \in CallDurations :
               LET t == Throttled([tsearch EXCEPT !.query = @ + 1], jitter, dur)
               IN  tsearch' = t.flow /\ tlast' = t.last /\ tstarts' = t.starts
          /\ UNCHANGED tmain
        ELSE
          /\ tsearch' = [tsearch EXCEPT !.step = "done"]
          /\ tmain' = IF Awaited
                      THEN [tmain EXCEPT !.step = "write", !.wake = tnow + WriteMs,
                                         !.next = "continue"]
                      ELSE tmain
          /\ UNCHANGED <<tlast, tstarts>>
  /\ UNCHANGED tnow
  /\ UNCHANGED <<workerVars, hashVars, remoteVars, auxVars>>

\* the timer of the fallback search fires first: the main flow takes the folder
\* as not found; the search flow is left as it is
TTimer ==
  /\ tmain.step = "search" /\ tmain.wake = tnow
  /\ tmain' = [tmain EXCEPT !.step = "write", !.wake = tnow + WriteMs, !.next = "continue"]
  /\ UNCHANGED <<tnow, tlast, tsearch, tstarts>>
  /\ UNCHANGED <<workerVars, hashVars, remoteVars, auxVars>>

\* the times at which a flow is due
Due == {f.wake : f \in {g \in {tmain, tsearch} : g.step \notin {"start", "done"}}}

\* the event loop is idle: the clock moves to the next timer or answer
TTick ==
  /\ tmain.step # "start"
  /\ Due # {}
  /\ \A t \in Due : t > tnow
  /\ tnow' = CHOOSE t \in Due : \A u \in Due : t <= u
  /\ UNCHANGED <<tlast, tmain, tsearch, tstarts>>
  /\ UNCHANGED <<workerVars, hashVars, remoteVars, auxVars>>

NextThrottle ==
  \/ TStart \/ TMainWake \/ TMainResponse \/ TMainWritten \/ TMainResumes
  \/ TSearchWake \/ TSearchResponse \/ TTimer \/ TTick

SpecThrottle == InitThrottle /\ [][NextThrottle]_vars

(***************************************************************************)
(* C17: any two consecutive Drive calls of a worker start at least         *)
(* throttleMs apart, whichever flows issue them, also when a folder        *)
(* search is still running after its timeout.                              *)
(***************************************************************************)
C17_CallsSpacedByThrottle ==
  Len(tstarts) = 2 => tstarts[2].at - tstarts[1].at >= ThrottleMs

(***************************************************************************)
(* C18: records are processed strictly one after another: while the main   *)
(* loop is at record i+1 no Drive call on behalf of record i is pending    *)
(* or in flight, also after the search for record i ended by timeout.      *)
(***************************************************************************)
C18_NoCallForEarlierRecord ==
  tsearch.step \in {"sleep", "call"} => tmain.rec = tsearch.rec

(***************************************************************************)
(* C21, as stated: whatever the outcome of a record, the worker attempts   *)
(* a write of its status (isShared) cell, a write of its LastLog cell and  *)
(* one line in its log file.                                               *)
(***************************************************************************)
\* worker w ends a record in this step: its log grows by an outcome line
RecordEnds(w) ==
  /\ Len(log'[w]) = Len(log[w]) + 1
  /\ log'[w][Len(log'[w])][1] \notin {"PROCESSING", "SUMMARY"}

EndedOutcome(w) == log'[w][Len(log'[w])][1]
EndedRow(w) == log'[w][Len(log'[w])][2]

C21_EveryOutcomeWritesStatusLastLogAndLine ==
  [][\A w \in Workers :
       RecordEnds(w) =>
         /\ <<w, EndedRow(w), "isShared">> \in writes'
         /\ <<w, EndedRow(w), "LastLog">> \in writes']_vars

(***************************************************************************)
(* C21, amended: every outcome writes the LastLog cell and one log line;   *)
(* the status cell is written for an invalid email (FALSE), for a          *)
(* recipient who already has access (TRUE), for a grant or dry run (TRUE)  *)
(* and for a failed grant (FALSE); a duplicate and an already-shared row   *)
(* leave the status cell alone, and a folder that is not found gets        *)
(* isFolderExists = FALSE written instead of a status.                     *)
(***************************************************************************)
StatusWritten(outcome) ==
  IF outcome \in {"SKIP INVALID EMAIL FORMAT", "SKIP NOT GMAIL ACCOUNT", "ERROR"} THEN S_FALSE
  ELSE IF outcome \in {"SKIP already has reader", "GRANTED", "DRY_RUN"} THEN S_TRUE
  ELSE EMPTY

C21_LastLogAlwaysStatusByOutcome ==
  [][\A w \in Workers :
       RecordEnds(w) =>
         LET row == EndedRow(w)
             status == StatusWritten(EndedOutcome(w))
         IN  /\ <<w, row, "LastLog">> \in writes'
             /\ IF Truthy(status)
                THEN /\ <<w, row, "isShared">> \in writes'
                     /\ sheet'[row - 1].isShared = status
                ELSE /\ <<w, row, "isShared">> \in writes' => <<w, row, "isShared">> \in writes
                     /\ sheet'[row - 1].isShared = sheet[row - 1].isShared
                     /\ EndedOutcome(w) = "ERROR folder not found" =>
                          /\ <<w, row, "isFolderExists">> \in writes'
                          /\ sheet'[row - 1].isFolderExists = S_FALSE]_vars

\* a record ended folder-not-found with its status cell never written
C21_Witness ==
  \E f \in finished :
    /\ f.outcome = "ERROR folder not found"
    /\ <<f.w, f.p.rowIndex, "isShared">> \notin writes
    /\ <<f.w, f.p.rowIndex, "LastLog">> \in writes
    /\ \E i \in DOMAIN log[f.w] : log[f.w][i] = <<f.outcome, f.p.rowIndex>>

(***************************************************************************)
(* The three writes that end a record, each of which may fail: the status  *)
(* cell and the LastLog cell through updateCell, the log line through      *)
(* writeLog on the append stream opened by initLogger.                     *)
(***************************************************************************)
MaxWriteRecords == 2   \* records of the working set in the write specification

\* updateCell: ok, or the request rejects and the catch prints a warning
CellWriteOutcomes == {"ok", "rejected"}

\* logStream.write: ok, a synchronous throw (caught by writeLog), or a failure of
\* the file write, which the stream reports later by an 'error' event
StreamWriteOutcomes == {"ok", "throws", "fails"}

OthersIdle ==
  /\ WorkersIdle /\ dryRun = FALSE
  /\ hk = << >> /\ hn = 1 /\ hslot = << >>
  /\ RemoteIdle /\ ThrottleIdle

coreVars == <<workerVars, hashVars, remoteVars, throttleVars>>

notIoVars == <<coreVars, runVars, lockVars, monVars, tailVars, cellVars, backVars, scopeVars>>

InitWrites ==
  /\ OthersIdle /\ RunIdle /\ LockIdle /\ MonIdle /\ TailIdle /\ CellIdle /\ BackIdle /\ ScopeIdle
  /\ wpc = "isShared" /\ wrec = 1 /\ wtried = {} /\ wfailed = {} /\ wpending = FALSE

\* await this.updateCellByIndex(...) for the status cell, then for the LastLog cell
WCellWrite ==
  /\ wpc \in {"isShared", "LastLog"}
  /\ \E outcome \in CellWriteOutcomes :
       /\ wtried' = wtried \cup {<<wrec, wpc>>}
       /\ wfailed' = IF outcome = "ok" THEN wfailed ELSE wfailed \cup {<<wrec, wpc>>}
  /\ wpc' = IF wpc = "isShared" THEN "LastLog" ELSE "line"
  /\ UNCHANGED <<wrec, wpending>>
  /\ UNCHANGED notIoVars

\* this.writeLog(...) of the record, then continue: the next record or the summary
WLogLine ==
  /\ wpc = "line"
  /\ \E outcome \in StreamWriteOutcomes :
       /\ wtried' = wtried \cup {<<wrec, "line">>}
       /\ wfailed' = IF outcome = "ok" THEN wfailed ELSE wfailed \cup {<<wrec, "line">>}
       /\ wpending' = (wpending \/ outcome = "fails")
  /\ IF wrec < MaxWriteRecords
     THEN wrec' = wrec + 1 /\ wpc' = "isShared"
     ELSE wrec' = wrec /\ wpc' = "summary"
  /\ UNCHANGED notIoVars

\* the summary line of the cycle
WSummary ==
  /\ wpc = "summary"
  /\ \E outcome \in StreamWriteOutcomes : wpending' = (wpending \/ outcome = "fails")
  /\ wpc' = "finished"
  /\ UNCHANGED <<wrec, wtried, wfailed>>
  /\ UNCHANGED notIoVars

\* the stream emits 'error'; no listener is registered on it, so the event is
\* thrown as an uncaught exception and the process ends
WStreamError ==
  /\ wpending
  /\ wpc # "crashed"
  /\ wpc' = "crashed"
  /\ wpending' = FALSE
  /\ UNCHANGED <<wrec, wtried, wfailed>>
  /\ UNCHANGED notIoVars

NextWrites == WCellWrite \/ WLogLine \/ WSummary \/ WStreamError

SpecWrites == InitWrites /\ [][NextWrites]_vars

(***************************************************************************)
(* C22: the three writes of a record are independent.  When one of them    *)
(* fails the other two are still attempted for that record, and the cycle  *)
(* goes on: the failure ends neither the record loop nor the worker.       *)
(***************************************************************************)
C22_FailedWriteStopsNothing ==
  /\ \A r \in 1..MaxWriteRecords :
       (\E e \in {"isShared", "LastLog", "line"} : <<r, e>> \in wfailed) /\ wrec > r =>
         \A e \in {"isShared", "LastLog", "line"} : <<r, e>> \in wtried
  /\ wfailed # {} => wpc # "crashed"

(***************************************************************************)
(* C23: whatever fails on single records (folder not found, an error of    *)
(* the remote API, exhausted retries), the cycle visits every record of    *)
(* the working set exactly once, in order, records the failure on that     *)
(* record, and then writes the summary line.                               *)
(***************************************************************************)
C23_EveryRecordVisitedThenSummary ==
  \A w \in Workers :
    InCycle(w) =>
      LET base == CycleBase(w)
          n == Len(work[w])
          lines == Len(log[w]) - base
      IN  /\ log[w][base] = <<"PROCESSING", n>>
          /\ \A j \in 1..Min(lines, n) :
               /\ log[w][base + j][2] = work[w][j].rowIndex
               /\ log[w][base + j][1] \notin {"PROCESSING", "SUMMARY"}
          /\ IF pc[w] = "idle"
             THEN lines = n + 1 /\ log[w][base + n + 1] = <<"SUMMARY", n>>
             ELSE lines = idx[w] - 1 /\ lines <= n /\ (pc[w] = "summary" <=> lines = n)

\* a cycle of two records ended with its summary after a folder was not found
\* and a grant failed
C23_Witness ==
  \E w \in Workers :
    /\ InCycle(w) /\ pc[w] = "idle" /\ Len(work[w]) = 2
    /\ log[w][Len(log[w])] = <<"SUMMARY", 2>>
    /\ {OutcomeAt(w, 1), OutcomeAt(w, 2)} = {"ERROR", "ERROR folder not found"}
    /\ stats[w].errors = 2

(***************************************************************************)
(* run() and the module entry of the worker: setup, then a single pass or  *)
(* the polling loop, and the exit code the process ends with.              *)
(***************************************************************************)

\* loop mode: sheet reads after which the model stops the polling loop
MaxRunCycles == 2

H_Nama == <<78, 97, 109, 97>>                       \* 'Nama'
H_Email == <<69, 109, 97, 105, 108>>                \* 'Email'
H_EMailPadded == <<32, 69, 45, 77, 97, 105, 108, 32>>   \* ' E-Mail '
H_Peserta == <<80, 101, 115, 101, 114, 116, 97>>    \* 'Peserta'
H_isShared == <<105, 115, 83, 104, 97, 114, 101, 100>>  \* 'isShared'

\* 'nama peserta', 'nama', 'nama lengkap', 'name', 'full name', 'participant name'
NameCandidates ==
  << <<110, 97, 109, 97, 32, 112, 101, 115, 101, 114, 116, 97>>,
     <<110, 97, 109, 97>>,
     <<110, 97, 109, 97, 32, 108, 101, 110, 103, 107, 97, 112>>,
     <<110, 97, 109, 101>>,
     <<102, 117, 108, 108, 32, 110, 97, 109, 101>>,
     <<112, 97, 114, 116, 105, 99, 105, 112, 97, 110, 116, 32, 110, 97, 109, 101>> >>

\* 'email address', 'email', 'e-mail', 'gmail', 'participant email'
EmailCandidates ==
  << <<101, 109, 97, 105, 108, 32, 97, 100, 100, 114, 101, 115, 115>>,
     <<101, 109, 97, 105, 108>>,
     <<101, 45, 109, 97, 105, 108>>,
     <<103, 109, 97, 105, 108>>,
     <<112, 97, 114, 116, 105, 99, 105, 112, 97, 110, 116, 32, 101, 109, 97, 105, 108>> >>

\* header rows of the sheet: complete, complete with other spelling, without a
\* name column, without an email column, empty
HeaderRows ==
  { <<H_Nama, H_Email, H_isShared>>,
    <<H_isShared, H_EMailPadded, H_Nama>>,
    <<H_Peserta, H_Email>>,
    <<H_Nama, H_isShared>>,
    << >> }

\* service.json: not on disk, on disk but unusable, usable
CredentialStates == {"missing", "invalid", "ok"}

\* lower.indexOf(name): 0-based index of the first equal element, -1 if none
IndexOf(seq, x) ==
  IF \E i \in DOMAIN seq : seq[i] = x
  THEN (CHOOSE i \in DOMAIN seq : seq[i] = x /\ \A j \in 1..(i - 1) : seq[j] # x) - 1
  ELSE -1

\* findIndexByNames: the index of the first candidate, in candidate order,
\* that the lower-cased trimmed header row holds
RECURSIVE FindIndexFrom(_, _, _)
FindIndexFrom(lower, candidates, k) ==
  IF k > Len(candidates) THEN -1
  ELSE IF IndexOf(lower, candidates[k]) # -1 THEN IndexOf(lower, candidates[k])
  ELSE FindIndexFrom(lower, candidates, k + 1)

findIndexByNames(headers, candidates) ==
  FindIndexFrom([i \in DOMAIN headers |-> ToLower(Trim(headers[i]))], candidates, 1)

\* getSpreadsheetDataFlexible returns null for an empty header row and for one
\* without a name or an email column
HeaderUsable(headers) ==
  /\ Len(headers) # 0
  /\ findIndexByNames(headers, NameCandidates) # -1
  /\ findIndexByNames(headers, EmailCandidates) # -1

InitRun ==
  /\ OthersIdle /\ IoIdle /\ LockIdle /\ MonIdle /\ TailIdle /\ CellIdle /\ BackIdle /\ ScopeIdle
  /\ xenv \in [credentials : CredentialStates, headers : HeaderRows,
               loop : BOOLEAN, tty : BOOLEAN]
  /\ xpc = "setupAuth" /\ xcode = -1 /\ xreads = 0

notRunVars == <<coreVars, ioVars, lockVars, monVars, tailVars, cellVars, backVars, scopeVars>>

\* setupAuth: process.exit(1) when service.json is missing; false on any
\* other failure, and run() returns
XSetupAuth ==
  /\ xpc = "setupAuth"
  /\ CASE xenv.credentials = "missing" -> xpc' = "exited" /\ xcode' = 1
       [] xenv.credentials = "invalid" -> xpc' = "resolved" /\ xcode' = xcode
       [] OTHER -> xpc' = "setupConfig" /\ xcode' = xcode
  /\ UNCHANGED <<xenv, xreads>>
  /\ UNCHANGED notRunVars

\* setupConfig with SHEET_ID and SHEET_NAME in the environment: true; then the
\* branch on LOOP
XSetupConfig ==
  /\ xpc = "setupConfig"
  /\ xpc' = "read"
  /\ UNCHANGED <<xenv, xcode, xreads>>
  /\ UNCHANGED notRunVars

\* const data = await this.getSpreadsheetDataFlexible(): single pass returns on
\* null; the loop skips processParticipants and sleeps
XReadSheet ==
  /\ xpc = "read"
  /\ xreads < MaxRunCycles
  /\ xreads' = xreads + 1
  /\ xpc' = IF HeaderUsable(xenv.headers) THEN "process"
            ELSE IF xenv.loop THEN "sleep" ELSE "resolved"
  /\ UNCHANGED <<xenv, xcode>>
  /\ UNCHANGED notRunVars

\* await this.processParticipants(data)
XProcess ==
  /\ xpc = "process"
  /\ xpc' = IF xenv.loop THEN "sleep" ELSE "resolved"
  /\ UNCHANGED <<xenv, xcode, xreads>>
  /\ UNCHANGED notRunVars

\* await this.sleepWithCountdown(pollSec), then the next turn of while (true)
XSleep ==
  /\ xpc = "sleep"
  /\ xpc' = "read"
  /\ UNCHANGED <<xenv, xcode, xreads>>
  /\ UNCHANGED notRunVars

\* app.run().then(...): process.exit(0), on a TTY after a key press
XResolved ==
  /\ xpc = "resolved"
  /\ IF xenv.tty THEN xpc' = "waitKey" /\ xcode' = xcode
                 ELSE xpc' = "exited" /\ xcode' = 0
  /\ UNCHANGED <<xenv, xreads>>
  /\ UNCHANGED notRunVars

\* process.stdin.once('data', () => process.exit(0))
XKeyPress ==
  /\ xpc = "waitKey"
  /\ xpc' = "exited" /\ xcode' = 0
  /\ UNCHANGED <<xenv, xreads>>
  /\ UNCHANGED notRunVars

NextRun ==
  XSetupAuth \/ XSetupConfig \/ XReadSheet \/ XProcess \/ XSleep \/ XResolved \/ XKeyPress

SpecRun == InitRun /\ [][NextRun]_vars

\* the setup failed fatally: no credentials file, or a header row was read that
\* has no usable Name or Email column
FatalSetupFailure ==
  \/ xenv.credentials = "missing" /\ xpc # "setupAuth"
  \/ xreads > 0 /\ ~HeaderUsable(xenv.headers)

\* C24: a fatal setup failure (credentials file missing, or no recognizable
\* Name or Email column in the header) ends the worker at once with exit code
\* 1, in single-pass and in loop mode, and no further cycle is started
C24_FatalSetupExitsWithCodeOne ==
  (xpc # "idle" /\ FatalSetupFailure) =>
    /\ xcode \in {-1, 1}
    /\ xpc \notin {"sleep", "process"}
    /\ xreads <= 1

(***************************************************************************)
(* The monitor's lock file: acquireLock of monitors started together, and  *)
(* the cleanup when a monitor ends.  Every file system call is one step.   *)
(* Processes are of one user: process.kill(pid, 0) throws exactly when no  *)
(* process has the pid, and unlinkSync fails only when the file is gone.   *)
(***************************************************************************)

NumMonitors == 2

Monitors == 1..NumMonitors

\* process.pid of a monitor
Pid(m) == 100 + m

\* a pid no process has, and the pid of a live process that is no monitor here
DeadPid == 9
OtherLivePid == 7

NoLock == << >>

\* the lock file when the monitors start: none, one left by a dead process, one
\* of a live process, one whose content parseInt turns into NaN
InitialLocks == {NoLock, <<DeadPid>>, <<OtherLivePid>>, <<0>>}

Signals == {"SIGINT", "SIGTERM"}

\* the pids process.kill(pid, 0) finds a process for
LivePids == {OtherLivePid} \cup {Pid(m) : m \in {n \in Monitors : mpc[n] # "exited"}}

ProbeAlwaysThrows(pid) == FALSE

\* process.kill(pid, 0) returns (does not throw)
ProbeSucceeds(pid) == pid \in LivePids

cleanupSkipped(file) == file

\* cleanup: try { fs.unlinkSync(LOCK_PATH) } catch (_) {}
cleanup(file) == NoLock

InitLock ==
  /\ OthersIdle /\ IoIdle /\ RunIdle /\ MonIdle /\ TailIdle /\ CellIdle /\ BackIdle /\ ScopeIdle
  /\ lockFile \in InitialLocks
  /\ mpc = [m \in Monitors |-> "exists"]
  /\ mread = [m \in Monitors |-> 0]
  /\ mwrote = [m \in Monitors |-> FALSE]
  /\ mtimers = [m \in Monitors |-> FALSE]
  /\ mvia = [m \in Monitors |-> ""]
  /\ mcode = [m \in Monitors |-> -1]

notLockVars == <<coreVars, ioVars, runVars, monVars, tailVars, cellVars, backVars, scopeVars>>

\* the process ends: its timers end with it
Ends(m, via, code) ==
  /\ mpc' = [mpc EXCEPT ![m] = "exited"]
  /\ mtimers' = [mtimers EXCEPT ![m] = FALSE]
  /\ mvia' = [mvia EXCEPT ![m] = via]
  /\ mcode' = [mcode EXCEPT ![m] = code]

\* if (fs.existsSync(LOCK_PATH))
LExists(m) ==
  /\ mpc[m] = "exists"
  /\ mpc' = [mpc EXCEPT ![m] = IF lockFile # NoLock THEN "read" ELSE "write"]
  /\ UNCHANGED <<lockFile, mread, mwrote, mtimers, mvia, mcode>>
  /\ UNCHANGED notLockVars

\* parseInt(fs.readFileSync(LOCK_PATH, 'utf8')); a file removed since the check
\* makes readFileSync throw, the outer catch warns and the monitor goes on
\* without a lock
LRead(m) ==
  /\ mpc[m] = "read"
  /\ IF lockFile = NoLock
     THEN /\ mpc' = [mpc EXCEPT ![m] = "launch"]
          /\ UNCHANGED mread
     ELSE /\ mread' = [mread EXCEPT ![m] = lockFile[1]]
          /\ mpc' = [mpc EXCEPT ![m] = IF lockFile[1] # 0 THEN "probe" ELSE "write"]
  /\ UNCHANGED <<lockFile, mwrote, mtimers, mvia, mcode>>
  /\ UNCHANGED notLockVars

\* process.kill(pid, 0): returns and the monitor exits with code 1, or throws
\* and the lock counts as stale
LProbe(m) ==
  /\ mpc[m] = "probe"
  /\ IF ProbeSucceeds(mread[m])
     THEN Ends(m, "lockHeld", 1)
     ELSE /\ mpc' = [mpc EXCEPT ![m] = "write"]
          /\ UNCHANGED <<mtimers, mvia, mcode>>
  /\ UNCHANGED <<lockFile, mread, mwrote>>
  /\ UNCHANGED notLockVars

\* fs.writeFileSync(LOCK_PATH, String(process.pid)) and the registration of
\* cleanup for 'exit', SIGINT and SIGTERM
LWrite(m) ==
  /\ mpc[m] = "write"
  /\ lockFile' = <<Pid(m)>>
  /\ mwrote' = [mwrote EXCEPT ![m] = TRUE]
  /\ mpc' = [mpc EXCEPT ![m] = "launch"]
  /\ UNCHANGED <<mread, mtimers, mvia, mcode>>
  /\ UNCHANGED notLockVars

\* startBasicMonitor: process.exit(1) when no worker binary is found (the
\* 'exit' listener runs cleanup), else the view starts its setInterval timer
LLaunch(m) ==
  /\ mpc[m] = "launch"
  /\ \E found \in BOOLEAN :
       IF found
       THEN /\ mpc' = [mpc EXCEPT ![m] = "running"]
            /\ mtimers' = [mtimers EXCEPT ![m] = TRUE]
            /\ UNCHANGED <<lockFile, mvia, mcode>>
       ELSE /\ Ends(m, "exit", 1)
            /\ lockFile' = IF mwrote[m] THEN cleanup(lockFile) ELSE lockFile
  /\ UNCHANGED <<mread, mwrote>>
  /\ UNCHANGED notLockVars

\* SIGINT or SIGTERM arrives. With the listeners of acquireLock: cleanup(), and
\* process.exit(0) is next. Without them: the view's SIGINT listener clears the
\* timer and exits with 0; any other signal ends the process by default.
LSignal(m) ==
  /\ mpc[m] \in {"launch", "running"}
  /\ \E sig \in Signals :
       IF mwrote[m]
       THEN /\ lockFile' = cleanup(lockFile)
            /\ mpc' = [mpc EXCEPT ![m] = "exiting"]
            /\ mvia' = [mvia EXCEPT ![m] = sig]
            /\ UNCHANGED <<mtimers, mcode>>
       ELSE /\ Ends(m, sig, IF sig = "SIGINT" /\ mpc[m] = "running" THEN 0
                            ELSE IF sig = "SIGINT" THEN 130 ELSE 143)
            /\ UNCHANGED lockFile
  /\ UNCHANGED <<mread, mwrote>>
  /\ UNCHANGED notLockVars

\* process.exit(0) of the signal listener: the 'exit' listener runs cleanup
\* once more and the process ends
LExit(m) ==
  /\ mpc[m] = "exiting"
  /\ lockFile' = cleanup(lockFile)
  /\ Ends(m, mvia[m], 0)
  /\ UNCHANGED <<mread, mwrote>>
  /\ UNCHANGED notLockVars

NextLock ==
  \E m \in Monitors :
    LExists(m) \/ LRead(m) \/ LProbe(m) \/ LWrite(m) \/ LLaunch(m) \/ LSignal(m) \/ LExit(m)

SpecLock == InitLock /\ [][NextLock]_vars

\* the monitor is past acquireLock and goes on to start its workers and view
Proceeded(m) == mpc[m] \in {"launch", "running"}

\* C25: of the monitors started at about the same time at most one gets past
\* acquireLock, whatever the interleaving of their file system steps
C25_AtMostOneMonitorProceeds ==
  mpc # << >> => Cardinality({m \in Monitors : Proceeded(m)}) <= 1

C27_EndedMonitorLeavesNoLock ==
  mpc # << >> =>
    \A m \in Monitors :
      (mpc[m] = "exited" /\ mwrote[m] /\ mvia[m] \in Signals \cup {"exit"}) =>
        /\ ~mtimers[m]
        /\ lockFile # <<Pid(m)>>
        /\ (mvia[m] \in Signals => mcode[m] = 0)

\* a monitor wrote the lock, started its view and was ended by SIGTERM
C27_Witness ==
  /\ mpc # << >>
  /\ \E m \in Monitors :
       /\ mpc[m] = "exited" /\ mwrote[m] /\ mvia[m] = "SIGTERM" /\ mcode[m] = 0
       /\ lockFile = NoLock

(***************************************************************************)
(* The table monitor: the lines a worker writes to its log file, and       *)
(* parseLogFile and updateWorkerStates reading them back.  A line is the   *)
(* sequence of its UTF-16 code units.  The timestamp of a line stands as   *)
(* the number of the line, the durations as fixed texts.                   *)
(***************************************************************************)

maxWorkers == 16

freshMs == 15000

L_Row == <<82, 111, 119>>
  \* 'Row'
L_GRANTED == <<71, 82, 65, 78, 84, 69, 68>>
  \* 'GRANTED'
L_DRY_RUN == <<68, 82, 89, 95, 82, 85, 78>>
  \* 'DRY_RUN'
L_SKIP == <<83, 75, 73, 80>>
  \* 'SKIP'
L_ERROR == <<69, 82, 82, 79, 82>>
  \* 'ERROR'
L_Processing == <<80, 114, 111, 99, 101, 115, 115, 105, 110, 103>>
  \* 'Processing'
L_participants == <<112, 97, 114, 116, 105, 99, 105, 112, 97, 110, 116, 115>>
  \* 'participants'
L_arrow == <<45, 62>>
  \* '->'
L_dash == <<45>>
  \* '-'
L_zeroOfZero == <<48, 47, 48>>
  \* '0/0'
W_info == <<93, 32, 91, 73, 78, 70, 79, 93, 32>>
  \* '] [INFO] '
W_error == <<93, 32, 91, 69, 82, 82, 79, 82, 93, 32>>
  \* '] [ERROR] '
W_Participants == <<80, 97, 114, 116, 105, 99, 105, 112, 97, 110, 116, 115, 58, 32>>
  \* 'Participants: '
W_parent == <<32, 112, 97, 114, 116, 105, 99, 105, 112, 97, 110, 116, 115, 46, 32, 112, 97, 114, 101, 110, 116, 70, 111, 108, 100, 101, 114, 73, 100, 61>>
  \* ' participants. parentFolderId='
W_role == <<32, 114, 101, 97, 100, 101, 114, 32, 45, 62, 32>>
  \* ' reader -> '
W_timeGrant == <<32, 45, 32, 84, 105, 109, 101, 58, 32, 53, 109, 115, 32, 40, 102, 111, 108, 100, 101, 114, 58, 32, 49, 109, 115, 44, 32, 112, 101, 114, 109, 105, 115, 115, 105, 111, 110, 58, 32, 49, 109, 115, 44, 32, 103, 114, 97, 110, 116, 58, 32, 49, 109, 115, 41>>
  \* ' - Time: 5ms (folder: 1ms, permission: 1ms, grant: 1ms)'
W_skip == <<32, 83, 75, 73, 80, 32>>
  \* ' SKIP '
W_invalid == <<73, 78, 86, 65, 76, 73, 68, 32, 69, 77, 65, 73, 76, 32, 70, 79, 82, 77, 65, 84>>
  \* 'INVALID EMAIL FORMAT'
W_notGmail == <<78, 79, 84, 32, 71, 77, 65, 73, 76, 32, 65, 67, 67, 79, 85, 78, 84>>
  \* 'NOT GMAIL ACCOUNT'
W_time == <<32, 45, 32, 84, 105, 109, 101, 58, 32, 53, 109, 115>>
  \* ' - Time: 5ms'
W_duplicate == <<32, 83, 75, 73, 80, 32, 100, 117, 112, 108, 105, 99, 97, 116, 101, 58, 32>>
  \* ' SKIP duplicate: '
W_has == <<32, 83, 75, 73, 80, 32, 97, 108, 114, 101, 97, 100, 121, 32, 104, 97, 115, 32, 114, 101, 97, 100, 101, 114, 32, 45, 32, 84, 105, 109, 101, 58, 32, 53, 109, 115, 32, 40, 102, 111, 108, 100, 101, 114, 58, 32, 49, 109, 115, 44, 32, 112, 101, 114, 109, 105, 115, 115, 105, 111, 110, 58, 32, 49, 109, 115, 41>>
  \* ' SKIP already has reader - Time: 5ms (folder: 1ms, permission: 1ms)'
W_notFound == <<32, 69, 82, 82, 79, 82, 32, 102, 111, 108, 100, 101, 114, 32, 110, 111, 116, 32, 102, 111, 117, 110, 100, 32, 102, 111, 114, 32, 110, 97, 109, 101, 61, 39>>
  \* " ERROR folder not found for name='"
W_notFoundTail == <<39, 32, 45, 32, 84, 105, 109, 101, 58, 32, 53, 109, 115, 32, 40, 102, 111, 108, 100, 101, 114, 32, 115, 101, 97, 114, 99, 104, 58, 32, 49, 109, 115, 41>>
  \* "' - Time: 5ms (folder search: 1ms)"
W_failed == <<32, 69, 82, 82, 79, 82, 58, 32, 82, 97, 116, 101, 32, 108, 105, 109, 105, 116, 32, 45, 32, 84, 105, 109, 101, 58, 32, 53, 109, 115, 32, 40, 102, 111, 108, 100, 101, 114, 58, 32, 49, 109, 115, 41, 32, 124, 32, 84, 101, 99, 104, 110, 105, 99, 97, 108, 58, 32, 72, 84, 84, 80, 32, 52, 50, 57, 32, 114, 97, 116, 101, 76, 105, 109, 105, 116, 69, 120, 99, 101, 101, 100, 101, 100, 32, 45, 32, 84, 111, 111, 32, 77, 97, 110, 121, 32, 82, 101, 113, 117, 101, 115, 116, 115>>
  \* ' ERROR: Rate limit - Time: 5ms (folder: 1ms) | Technical: HTTP 429 rateLimitExceeded - Too Many Requests'

\* String(n) of a non-negative integer
RECURSIVE Decimal(_)
Decimal(n) == IF n < 10 THEN <<48 + n>> ELSE Decimal(n \div 10) \o <<48 + (n % 10)>>

\* parseInt of a run of decimal digits
RECURSIVE ParseInt(_)
ParseInt(digits) ==
  IF digits = << >> THEN 0
  ELSE 10 * ParseInt(SubSeq(digits, 1, Len(digits) - 1)) + (digits[Len(digits)] - 48)

\* one line of a worker's log, before it is text; n is the row of the record,
\* or the count the line reports
LogLine(kind, n, nama, email) == [kind |-> kind, n |-> n, nama |-> nama, email |-> email]

\* the message a writeLog call of the worker passes, by the template of the call
MessageText(d) ==
  LET row == L_Row \o <<32>> \o Decimal(d.n)
  IN CASE d.kind = "participants" -> W_Participants \o Decimal(d.n)
       [] d.kind = "marker" -> L_Processing \o <<32>> \o Decimal(d.n) \o W_parent
       [] d.kind = "GRANTED" -> row \o <<32>> \o L_GRANTED \o W_role \o d.email \o W_timeGrant
       [] d.kind = "DRY_RUN" -> row \o <<32>> \o L_DRY_RUN \o W_role \o d.email \o W_timeGrant
       [] d.kind = "invalid" -> row \o W_skip \o W_invalid \o <<58, 32>> \o d.email \o W_time
       [] d.kind = "notGmail" -> row \o W_skip \o W_notGmail \o <<58, 32>> \o d.email \o W_time
       [] d.kind = "duplicate" -> row \o W_duplicate \o d.nama \o <<124>> \o d.email \o W_time
       [] d.kind = "hasAccess" -> row \o W_has
       [] d.kind = "notFound" -> row \o W_notFound \o d.nama \o W_notFoundTail
       [] OTHER -> row \o W_failed

\* writeLog: `[${ts}] [${level.toUpperCase()}] ${message}`
LineText(d, ts) ==
  <<91>> \o Decimal(ts)
    \o (IF d.kind \in {"notFound", "failed"} THEN W_error ELSE W_info)
    \o MessageText(d)

StartsAt(s, i, lit) ==
  /\ i >= 1
  /\ i + Len(lit) - 1 <= Len(s)
  /\ \A k \in 1..Len(lit) : s[i + k - 1] = lit[k]

\* the character classes of the monitor's patterns: \s \d \w [^\s] [^\s\|] [^\]] .
InClass(c, class) ==
  CASE class = "s" -> IsWhite(c)
    [] class = "d" -> IsDigit(c)
    [] class = "w" -> IsWordChar(c)
    [] class = "S" -> ~IsWhite(c)
    [] class = "token" -> ~IsWhite(c) /\ c # 124
    [] class = "nonBracket" -> c # 93
    [] OTHER -> c \notin {10, 13}

\* how many characters from position p on are of the class
RECURSIVE ClassRun(_, _, _)
ClassRun(s, p, class) ==
  IF p > Len(s) \/ ~InClass(s[p], class) THEN 0 ELSE 1 + ClassRun(s, p + 1, class)

\* the pieces a pattern is made of
Lit(text) == [op |-> "lit", arg |-> text]
Plus(class) == [op |-> "plus", arg |-> class]
Either(texts) == [op |-> "alt", arg |-> texts]
LazyAny == [op |-> "lazy", arg |-> "."]
WordBoundary == [op |-> "boundary", arg |-> ""]
OptionalPipeGroup == [op |-> "optPipe", arg |-> ""]

\* the positions a piece can end at (exclusive) when it starts at position p
Step(s, p, piece) ==
  CASE piece.op = "lit" -> IF StartsAt(s, p, piece.arg) THEN {p + Len(piece.arg)} ELSE {}
    [] piece.op = "alt" -> {p + Len(t) : t \in {u \in piece.arg : StartsAt(s, p, u)}}
    [] piece.op = "plus" -> {p + n : n \in 1..ClassRun(s, p, piece.arg)}
    [] piece.op = "lazy" -> {p + n : n \in 0..ClassRun(s, p, ".")}
    [] piece.op = "boundary" ->
         IF (p > 1 /\ IsWordChar(s[p - 1])) # (p <= Len(s) /\ IsWordChar(s[p]))
         THEN {p} ELSE {}
    [] OTHER ->   \* (?:\|[^\s]+)?
         {p} \cup (IF p <= Len(s) /\ s[p] = 124
                   THEN {p + 1 + n : n \in 1..ClassRun(s, p + 1, "S")} ELSE {})

\* the ways the pieces from the j-th on match from the end of path: each way is
\* the start position followed by the end of every piece
RECURSIVE Paths(_, _, _, _)
Paths(s, path, pieces, j) ==
  IF j > Len(pieces) THEN {path}
  ELSE UNION {Paths(s, Append(path, q), pieces, j + 1) :
                q \in Step(s, path[Len(path)], pieces[j])}

\* all the ways the pattern matches somewhere in the line
Matches(s, pieces) ==
  UNION {Paths(s, <<i>>, pieces, 1) : i \in {k \in 1..Len(s) : Step(s, k, pieces[1]) # {}}}

\* the match line.match() reports: the leftmost one, and of those the one whose
\* piece `lazy` (a piece that is lazy, or any piece) ends first
FirstMatch(found, lazy) ==
  CHOOSE m \in found :
    \A o \in found : m[1] < o[1] \/ (m[1] = o[1] /\ m[lazy + 1] <= o[lazy + 1])

\* the text of piece k in a match
Group(s, m, k) == SubSeq(s, m[k], m[k + 1] - 1)

\* /Row\s+\d+\s+(GRANTED|DRY_RUN)\s+\w+\s+->\s+([^\s]+)\s+-/
successPattern ==
  << Lit(L_Row), Plus("s"), Plus("d"), Plus("s"), Either({L_GRANTED, L_DRY_RUN}),
     Plus("s"), Plus("w"), Plus("s"), Lit(L_arrow), Plus("s"), Plus("S"), Plus("s"),
     Lit(L_dash) >>

\* /Row\s+\d+\s+SKIP\b.*?:\s+([^\s\|]+)(?:\|[^\s]+)?\s+-/
skipPattern ==
  << Lit(L_Row), Plus("s"), Plus("d"), Plus("s"), Lit(L_SKIP), WordBoundary, LazyAny,
     Lit(<<58>>), Plus("s"), Plus("token"), OptionalPipeGroup, Plus("s"), Lit(L_dash) >>

\* /Row\s+\d+\s+ERROR\b.*?(?:name='([^']+)')?/ up to \b: what follows always
\* matches empty (the lazy .*? takes nothing and the group is optional), and the
\* group cannot match right after ERROR\b, so group 1 is never set
errorPattern ==
  << Lit(L_Row), Plus("s"), Plus("d"), Plus("s"), Lit(L_ERROR), WordBoundary >>

\* /\[([^\]]+)\]/
timestampPattern == << Lit(<<91>>), Plus("nonBracket"), Lit(<<93>>) >>

\* /Processing\s+(\d+)\s+participants/
markerPattern ==
  << Lit(L_Processing), Plus("s"), Plus("d"), Plus("s"), Lit(L_participants) >>

\* email.split('@')[0]
RECURSIVE LocalPart(_)
LocalPart(email) ==
  IF email = << >> \/ Head(email) = 64 THEN << >> ELSE <<Head(email)>> \o LocalPart(Tail(email))

\* the counter the if / else if chain of parseLogFile adds the line to
Counted(s) ==
  IF Matches(s, successPattern) # {} THEN "success"
  ELSE IF Matches(s, skipPattern) # {} THEN "skip"
  ELSE IF Matches(s, errorPattern) # {} THEN "error"
  ELSE "none"

\* what the line sets worker.current to: <<text>>, or << >> if it leaves it
CurrentOf(s) ==
  IF Matches(s, successPattern) # {}
  THEN {IF LocalPart(Group(s, m, 11)) # << >> THEN <<LocalPart(Group(s, m, 11))>> ELSE << >> :
          m \in {FirstMatch(Matches(s, successPattern), 1)}}
  ELSE IF Matches(s, skipPattern) # {}
  THEN {IF Trim(Group(s, m, 10)) # << >> THEN <<Trim(Group(s, m, 10))>> ELSE << >> :
          m \in {FirstMatch(Matches(s, skipPattern), 7)}}
  ELSE {<< >>}

\* what the line sets lastActivity to
ActivityOf(s) ==
  IF Matches(s, timestampPattern) = {} THEN {<< >>}
  ELSE {<<Group(s, m, 2)>> : m \in {FirstMatch(Matches(s, timestampPattern), 1)}}

\* what the line sets totalParticipants to
MarkerOf(s) ==
  IF Matches(s, markerPattern) = {} THEN {<< >>}
  ELSE {<<ParseInt(Group(s, m, 3))>> : m \in {FirstMatch(Matches(s, markerPattern), 1)}}

\* the value a variable of the loop over the lines ends with: the one the last
\* line that sets it gives, else its initial value. set[k] is what line k sets
\* it to: {<< >>} or {<<v>>}.
LastSet(set, initial) ==
  LET setters == {k \in DOMAIN set : set[k] # {<< >>}}
  IN IF setters = {} THEN initial
     ELSE (CHOOSE v \in set[CHOOSE k \in setters : \A j \in setters : j <= k] : TRUE)[1]

\* how many lines the loop adds to the counter
CountOf(lines, counter) == Cardinality({k \in DOMAIN lines : Counted(lines[k]) = counter})

FinalStatusInclusive(totalParticipants, processed, age) ==
  IF totalParticipants > 0
  THEN IF processed <= totalParticipants THEN "RUNNING" ELSE "COMPLETED"
  ELSE IF processed > 0
  THEN IF age < freshMs THEN "RUNNING" ELSE "COMPLETED"
  ELSE IF age < freshMs THEN "RUNNING" ELSE "IDLE"

\* "Set final status": age is now - stat.mtimeMs
FinalStatus(totalParticipants, processed, age) ==
  IF totalParticipants > 0
  THEN IF processed < totalParticipants THEN "RUNNING" ELSE "COMPLETED"
  ELSE IF processed > 0
  THEN IF age < freshMs THEN "RUNNING" ELSE "COMPLETED"
  ELSE IF age < freshMs THEN "RUNNING" ELSE "IDLE"

\* worker.progress
ProgressText(totalParticipants, processed) ==
  IF totalParticipants > 0
  THEN Decimal(processed) \o <<47>> \o Decimal(totalParticipants)
  ELSE Decimal(processed)

\* the slot after the loop over the lines, given what the loop counted
Snapshot(worker, f, age, success, skip, error, total, current, lastActivity) ==
  [id |-> worker.id,
   logFile |-> f,
   status |-> FinalStatus(total, success + skip + error, age),
   current |-> current,
   progress |-> ProgressText(total, success + skip + error),
   success |-> success,
   error |-> error,
   skip |-> skip,
   lastActivity |-> lastActivity]

\* parseLogFile: a file that cannot be read throws inside the try, and the
\* catch leaves the slot as it was
parseLogFile(worker, f, file, now) ==
  IF ~file.readable THEN worker
  ELSE Snapshot(worker, f, now - file.mtime,
                CountOf(file.lines, "success"), CountOf(file.lines, "skip"),
                CountOf(file.lines, "error"),
                LastSet([k \in DOMAIN file.lines |-> MarkerOf(file.lines[k])], 0),
                LastSet([k \in DOMAIN file.lines |-> CurrentOf(file.lines[k])], L_dash),
                LastSet([k \in DOMAIN file.lines |-> ActivityOf(file.lines[k])], L_dash))

\* the slots a monitor is constructed with
FreshSlots ==
  [i \in 1..maxWorkers |->
     [id |-> i, logFile |-> 0, status |-> "IDLE", current |-> L_dash,
      progress |-> L_zeroOfZero, success |-> 0, error |-> 0, skip |-> 0,
      lastActivity |-> L_dash]]

\* sort((a, b) => statB.mtime - statA.mtime) of the readdir listing: newest
\* first, files of equal mtime in the order of the listing
InsertByMtime(sorted, f, dir) ==
  LET k == Cardinality({i \in DOMAIN sorted : dir[sorted[i]].mtime >= dir[f].mtime})
  IN SubSeq(sorted, 1, k) \o <<f>> \o SubSeq(sorted, k + 1, Len(sorted))

RECURSIVE SortByMtime(_, _)
SortByMtime(listing, dir) ==
  IF listing = << >> THEN << >>
  ELSE InsertByMtime(SortByMtime(SubSeq(listing, 1, Len(listing) - 1), dir),
                     listing[Len(listing)], dir)

\* fs.readdirSync(this.logsDir) filtered to share-*.log: the files present, by name
RECURSIVE Listing(_, _)
Listing(dir, f) ==
  IF f > Len(dir) THEN << >>
  ELSE (IF dir[f].present THEN <<f>> ELSE << >>) \o Listing(dir, f + 1)

\* "Reset all workers to IDLE first": only the slots that say RUNNING
ResetRunning(worker) ==
  IF worker.status = "RUNNING"
  THEN [worker EXCEPT !.status = "IDLE", !.current = L_dash]
  ELSE worker

\* updateWorkerStates: slot i takes the i-th newest log file
updateWorkerStates(workers, dir, now) ==
  [i \in DOMAIN workers |->
     IF i <= Min(Cardinality({f \in DOMAIN dir : dir[f].present}), maxWorkers)
     THEN parseLogFile(ResetRunning(workers[i]), SortByMtime(Listing(dir, 1), dir)[i],
                       dir[SortByMtime(Listing(dir, 1), dir)[i]], now)
     ELSE ResetRunning(workers[i])]

\* clock ticks (of freshMs each) the model lets pass
MaxTicks == 1

\* log files the directory of the polling specification can hold
MaxLogFiles == 1

\* a cycle of ten records, every shape the worker writes but "already has"
LongCycle ==
  << LogLine("participants", 12, EMPTY, EMPTY),
     LogLine("marker", 10, EMPTY, EMPTY),
     LogLine("GRANTED", 2, N_tono, E_a),
     LogLine("invalid", 3, N_wati, E_bad),
     LogLine("notGmail", 4, N_rudy, E_other),
     LogLine("duplicate", 5, N_tono, E_a),
     LogLine("notFound", 6, N_DrSiti, E_b),
     LogLine("failed", 7, N_siti, E_b),
     LogLine("GRANTED", 8, N_Siti, E_b),
     LogLine("GRANTED", 9, N_SITI, E_b),
     LogLine("GRANTED", 10, N_rudy, E_b),
     LogLine("GRANTED", 11, N_wati, E_b) >>

\* loop mode: a cycle of two records, then a cycle that finds nothing to do
WorkThenIdle ==
  << LogLine("participants", 2, EMPTY, EMPTY),
     LogLine("marker", 2, EMPTY, EMPTY),
     LogLine("GRANTED", 2, N_tono, E_a),
     LogLine("GRANTED", 3, N_wati, E_b),
     LogLine("participants", 2, EMPTY, EMPTY),
     LogLine("marker", 0, EMPTY, EMPTY) >>

\* a dry run of one record
DryCycle ==
  << LogLine("participants", 1, EMPTY, EMPTY),
     LogLine("marker", 1, EMPTY, EMPTY),
     LogLine("DRY_RUN", 2, N_tono, E_a) >>

\* a cycle of two records: one that has access already, one duplicate of it
AccessCycle ==
  << LogLine("participants", 2, EMPTY, EMPTY),
     LogLine("marker", 2, EMPTY, EMPTY),
     LogLine("hasAccess", 2, N_DrSiti, E_a),
     LogLine("duplicate", 3, N_DrSiti, E_a) >>

\* a cycle that finds every row of the sheet processed already
IdleCycle ==
  << LogLine("participants", 3, EMPTY, EMPTY),
     LogLine("marker", 0, EMPTY, EMPTY) >>

\* loop mode: a cycle of two records, then a cycle of one record
TwoCycles ==
  << LogLine("participants", 3, EMPTY, EMPTY),
     LogLine("marker", 2, EMPTY, EMPTY),
     LogLine("GRANTED", 2, N_tono, E_a),
     LogLine("GRANTED", 3, N_wati, E_b),
     LogLine("participants", 3, EMPTY, EMPTY),
     LogLine("marker", 1, EMPTY, EMPTY),
     LogLine("GRANTED", 4, N_rudy, E_b) >>

LogScripts == {LongCycle, WorkThenIdle, TwoCycles, DryCycle, AccessCycle, IdleCycle}

PollScripts == {DryCycle, AccessCycle}

NoFile ==
  [present |-> FALSE, script |-> << >>, written |-> 0, lines |-> << >>, mtime |-> 0,
   readable |-> FALSE]

\* initLogger: fs.createWriteStream(this.logFilePath, { flags: 'a' })
NewFile(script, now) ==
  [present |-> TRUE, script |-> script, written |-> 0, lines |-> << >>, mtime |-> now,
   readable |-> TRUE]

notMonVars == <<coreVars, ioVars, runVars, lockVars, tailVars, cellVars, backVars, scopeVars>>

\* one worker and its log file, and a monitor that was just constructed
InitLog ==
  /\ OthersIdle /\ IoIdle /\ RunIdle /\ LockIdle /\ TailIdle /\ CellIdle /\ BackIdle /\ ScopeIdle
  /\ \E script \in LogScripts : logDir = <<NewFile(script, 0)>>
  /\ clock = 0
  /\ slots = FreshSlots
  /\ polled = FALSE

\* an empty logs directory and a monitor that was just constructed
InitPoll ==
  /\ OthersIdle /\ IoIdle /\ RunIdle /\ LockIdle /\ TailIdle /\ CellIdle /\ BackIdle /\ ScopeIdle
  /\ logDir = [f \in 1..MaxLogFiles |-> NoFile]
  /\ clock = 0
  /\ slots = FreshSlots
  /\ polled = FALSE

\* a worker starts and creates its log file
FCreate(f) ==
  /\ ~logDir[f].present
  /\ \E script \in PollScripts : logDir' = [logDir EXCEPT ![f] = NewFile(script, clock)]
  /\ polled' = FALSE
  /\ UNCHANGED <<clock, slots>>
  /\ UNCHANGED notMonVars

\* the worker's next writeLog reaches the file
FAppend(f) ==
  /\ logDir[f].present
  /\ logDir[f].written < Len(logDir[f].script)
  /\ logDir' = [logDir EXCEPT
                  ![f].written = @ + 1,
                  ![f].lines = Append(@, LineText(logDir[f].script[logDir[f].written + 1],
                                                  logDir[f].written + 1)),
                  ![f].mtime = clock]
  /\ polled' = FALSE
  /\ UNCHANGED <<clock, slots>>
  /\ UNCHANGED notMonVars

\* the log file is deleted
FRemove(f) ==
  /\ logDir[f].present
  /\ logDir' = [logDir EXCEPT ![f] = NoFile]
  /\ polled' = FALSE
  /\ UNCHANGED <<clock, slots>>
  /\ UNCHANGED notMonVars

\* the log file stays listed but can no longer be read by the monitor
FUnreadable(f) ==
  /\ logDir[f].present
  /\ logDir[f].readable
  /\ logDir' = [logDir EXCEPT ![f].readable = FALSE]
  /\ polled' = FALSE
  /\ UNCHANGED <<clock, slots>>
  /\ UNCHANGED notMonVars

\* freshMs pass
Tick ==
  /\ clock < MaxTicks * freshMs
  /\ clock' = clock + freshMs
  /\ polled' = FALSE
  /\ UNCHANGED <<logDir, slots>>
  /\ UNCHANGED notMonVars

\* the setInterval callback of startMonitoring: this.updateWorkerStates()
MPoll ==
  /\ slots' = updateWorkerStates(slots, logDir, clock)
  /\ polled' = TRUE
  /\ UNCHANGED <<logDir, clock>>
  /\ UNCHANGED notMonVars

NextLog == MPoll \/ Tick \/ FAppend(1)

SpecLog == InitLog /\ [][NextLog]_vars

NextPoll ==
  \/ MPoll
  \/ Tick
  \/ \E f \in 1..MaxLogFiles : FCreate(f) \/ FAppend(f) \/ FRemove(f) \/ FUnreadable(f)

SpecPoll == InitPoll /\ [][NextPoll]_vars

\* C30: after a poll the slots are what a monitor constructed just now shows
\* after its first poll of the same directory at the same time: nothing of
\* the earlier polls is left in them
C30_SnapshotDependsOnDirectoryOnly ==
  polled => slots = updateWorkerStates(FreshSlots, logDir, clock)

\* the lines of the kinds that the worker has written to the file
WrittenOf(file, kinds) == {k \in 1..file.written : file.script[k].kind \in kinds}

\* N of the marker line the worker wrote last
LastMarker(file) ==
  file.script[CHOOSE k \in WrittenOf(file, {"marker"}) :
                \A j \in WrittenOf(file, {"marker"}) : j <= k].n

\* processed, as the slot shows it
Processed(worker) == worker.success + worker.skip + worker.error

\* the status of a log without a marker: by the age of the file
StatusByAge(processed, age) ==
  IF age < freshMs THEN "RUNNING" ELSE IF processed > 0 THEN "COMPLETED" ELSE "IDLE"

\* "6/10"
L_sixOfTen == <<54, 47, 49, 48>>

\* C28 as stated: with a 'Processing N participants' line in the log the status
\* is RUNNING while processed < N and COMPLETED otherwise; without one it is
\* RUNNING when the file was modified less than 15 s ago, else COMPLETED if
\* processed > 0, else IDLE
C28_StatusByMarkerElseAge ==
  (polled /\ logDir[1].present) =>
    slots[1].status =
      IF WrittenOf(logDir[1], {"marker"}) # {}
      THEN IF Processed(slots[1]) < LastMarker(logDir[1]) THEN "RUNNING" ELSE "COMPLETED"
      ELSE StatusByAge(Processed(slots[1]), clock - logDir[1].mtime)

\* C28, amended: the marker rule applies when the last 'Processing N
\* participants' line has N > 0; with no such line, or with N = 0 in the last
\* one, the status goes by the age of the file. A log with the marker for 10
\* and six counted outcome lines shows RUNNING and progress '6/10'.
C28_StatusByPositiveMarkerElseAge ==
  (polled /\ logDir[1].present) =>
    /\ slots[1].status =
         IF WrittenOf(logDir[1], {"marker"}) # {} /\ LastMarker(logDir[1]) > 0
         THEN IF Processed(slots[1]) < LastMarker(logDir[1]) THEN "RUNNING" ELSE "COMPLETED"
         ELSE StatusByAge(Processed(slots[1]), clock - logDir[1].mtime)
    /\ (logDir[1].script = LongCycle /\ logDir[1].written = 8) =>
         slots[1].status = "RUNNING" /\ slots[1].progress = L_sixOfTen

\* the worker wrote the marker for 10 and six outcome lines, and the monitor
\* polled: RUNNING, 6/10
C28_Witness ==
  /\ polled
  /\ logDir # << >> /\ logDir[1].script = LongCycle /\ logDir[1].written = 8
  /\ slots[1].status = "RUNNING" /\ slots[1].progress = L_sixOfTen
  /\ Processed(slots[1]) = 6

\* C29: every outcome line the worker has written is counted by the monitor,
\* once and in the matching counter, so that processed is the number of records
\* the worker has gone through
C29_EveryOutcomeLineCounted ==
  (polled /\ logDir[1].present) =>
    /\ slots[1].success = Cardinality(WrittenOf(logDir[1], {"GRANTED", "DRY_RUN"}))
    /\ slots[1].skip =
         Cardinality(WrittenOf(logDir[1], {"invalid", "notGmail", "duplicate", "hasAccess"}))
    /\ slots[1].error = Cardinality(WrittenOf(logDir[1], {"notFound", "failed"}))


(***************************************************************************)
(* The live tail: LiveLogsFollower of src/certificate-monitor.js following *)
(* the log files the workers append to.  A file is bytes; the worker's     *)
(* stream encodes each line as UTF-8 and the follower decodes each chunk   *)
(* it read with buffer.toString('utf8').  What is on disk is a sequence of *)
(* extents, an extent being a byte sequence written a number of times in a *)
(* row, so that more than chunkCap bytes can be pending without the model  *)
(* holding them one by one.                                                *)
(***************************************************************************)

\* Math.min(len, 1024 * 256)
chunkCap == 1024 * 256

\* this.maxWorkers = options.maxWorkers || 64, no caller passes options
followerMaxWorkers == 64

N_rene == <<114, 101, 110, 233>>                  \* "rené"

Max(a, b) == IF a > b THEN a ELSE b

\* the UTF-8 bytes of a string of the Basic Multilingual Plane
RECURSIVE Utf8Encode(_)
Utf8Encode(s) ==
  IF s = << >> THEN << >>
  ELSE IF Len(s) = 1
    THEN IF s[1] < 128 THEN <<s[1]>>
         ELSE IF s[1] < 2048 THEN <<192 + (s[1] \div 64), 128 + (s[1] % 64)>>
         ELSE <<224 + (s[1] \div 4096), 128 + ((s[1] \div 64) % 64), 128 + (s[1] % 64)>>
  ELSE Utf8Encode(SubSeq(s, 1, Len(s) \div 2))
         \o Utf8Encode(SubSeq(s, (Len(s) \div 2) + 1, Len(s)))

IsContinuation(x) == x \in 128..191

\* continuation bytes a lead byte announces (0: not a lead byte)
Announced(x) ==
  IF x \in 194..223 THEN 1 ELSE IF x \in 224..239 THEN 2 ELSE IF x \in 240..244 THEN 3 ELSE 0

\* continuation bytes found at b[i], b[i+1], ..., at most max of them
RECURSIVE ContinuationRun(_, _, _)
ContinuationRun(b, i, max) ==
  IF max = 0 \/ i > Len(b) \/ ~IsContinuation(b[i]) THEN 0
  ELSE 1 + ContinuationRun(b, i + 1, max - 1)

\* the code point of the complete sequence of 1 + n bytes at b[i]
CodePoint(b, i, n) ==
  IF n = 1 THEN (b[i] - 192) * 64 + (b[i + 1] - 128)
  ELSE IF n = 2 THEN (b[i] - 224) * 4096 + (b[i + 1] - 128) * 64 + (b[i + 2] - 128)
  ELSE (b[i] - 240) * 262144 + (b[i + 1] - 128) * 4096 + (b[i + 2] - 128) * 64
         + (b[i + 3] - 128)

\* b[i] starts a complete sequence
Complete(b, i) ==
  /\ Announced(b[i]) > 0
  /\ ContinuationRun(b, i + 1, Announced(b[i])) = Announced(b[i])

\* b[i] is a continuation byte decoded with the lead byte d places before it
Follows(b, i, d) ==
  /\ i - d >= 1
  /\ Announced(b[i - d]) >= d
  /\ \A j \in (i - d + 1)..i : IsContinuation(b[j])

\* buffer.toString('utf8'): a byte that starts no complete sequence, alone or
\* with the continuation bytes that follow it, becomes one U+FFFD; a sequence
\* of four bytes becomes a surrogate pair, told here at its first two bytes
Utf8Decode(b) ==
  LET told == SelectSeq([i \in 1..Len(b) |-> i],
                        LAMBDA i : \/ \A d \in 1..3 : ~Follows(b, i, d)
                                   \/ /\ Follows(b, i, 1)
                                      /\ Announced(b[i - 1]) = 3 /\ Complete(b, i - 1))
  IN [k \in DOMAIN told |->
        IF b[told[k]] < 128 THEN b[told[k]]
        ELSE IF Follows(b, told[k], 1)
          THEN 56320 + ((CodePoint(b, told[k] - 1, 3) - 65536) % 1024)
        ELSE IF ~Complete(b, told[k]) THEN 65533
        ELSE IF Announced(b[told[k]]) = 3
          THEN 55296 + ((CodePoint(b, told[k], 3) - 65536) \div 1024)
        ELSE CodePoint(b, told[k], Announced(b[told[k]]))]

\* text.split(/\r?\n/).filter(Boolean): the non-empty pieces between line ends
RECURSIVE SplitLines(_)
SplitLines(text) ==
  IF text = << >> THEN << >>
  ELSE IF \A i \in DOMAIN text : text[i] # 10 THEN <<text>>
  ELSE LET k == CHOOSE i \in DOMAIN text :
                  text[i] = 10 /\ \A j \in 1..(i - 1) : text[j] # 10
           piece == IF k > 1 /\ text[k - 1] = 13 THEN SubSeq(text, 1, k - 2)
                    ELSE SubSeq(text, 1, k - 1)
       IN (IF piece = << >> THEN << >> ELSE <<piece>>)
            \o SplitLines(SubSeq(text, k + 1, Len(text)))

\* bytes, written times times in a row
Extent(bytes, times) == [bytes |-> bytes, times |-> times]

\* st.size
RECURSIVE SizeOf(_)
SizeOf(data) ==
  IF data = << >> THEN 0
  ELSE Len(data[1].bytes) * data[1].times + SizeOf(Tail(data))

\* the bytes from, ..., to - 1 of one extent, counted from its start
CutExtent(e, from, to) ==
  LET n == Len(e.bytes)
      a == Max(from, 0)
      b == Min(to, n * e.times)
  IN IF a >= b THEN << >>
     ELSE IF a \div n = (b - 1) \div n
       THEN IF a % n = 0 /\ b % n = 0 THEN <<Extent(e.bytes, 1)>>
            ELSE <<Extent(SubSeq(e.bytes, (a % n) + 1, ((b - 1) % n) + 1), 1)>>
     ELSE (IF a % n = 0 THEN << >> ELSE <<Extent(SubSeq(e.bytes, (a % n) + 1, n), 1)>>)
          \o (IF (b \div n) > ((a + n - 1) \div n)
              THEN <<Extent(e.bytes, (b \div n) - ((a + n - 1) \div n))>> ELSE << >>)
          \o (IF b % n = 0 THEN << >> ELSE <<Extent(SubSeq(e.bytes, 1, b % n), 1)>>)

\* fs.readSync(fd, buffer, 0, to - from, from): the bytes from, ..., to - 1
RECURSIVE ReadBytes(_, _, _)
ReadBytes(data, from, to) ==
  IF data = << >> THEN << >>
  ELSE CutExtent(data[1], from, to)
         \o ReadBytes(Tail(data), from - Len(data[1].bytes) * data[1].times,
                  to - Len(data[1].bytes) * data[1].times)

\* the lines of a chunk.  An extent written several times holds one whole
\* line and follows a complete line, so every extent of a chunk but the last
\* ends with a line end and the extents split on their own.
RECURSIVE ChunkLines(_)
ChunkLines(chunk) ==
  IF chunk = << >> THEN << >>
  ELSE [k \in DOMAIN SplitLines(Utf8Decode(chunk[1].bytes)) |->
          [text |-> SplitLines(Utf8Decode(chunk[1].bytes))[k], times |-> chunk[1].times]]
         \o ChunkLines(Tail(chunk))

\* log files the logs directory of the live tail can hold
MaxTailFiles == 1

\* writes per file that the file system shows half done
MaxPartWrites == 1

\* bursts per file
MaxBursts == 1

\* logStream.write(line): the line of writeLog as it reaches the file
LineOnDisk(d, ts) == Utf8Encode(LineText(d, ts) \o <<10>>)

\* what a worker writes line by line: a duplicate of a record whose name is
\* not ASCII, then a grant
TailScript ==
  << LineOnDisk(LogLine("duplicate", 2, N_rene, E_a), 1),
     LineOnDisk(LogLine("participants", 3, EMPTY, EMPTY), 2) >>

\* lines written while the follower did not poll: a cycle of records that
\* were shared before, taken as equal lines, just over chunkCap bytes of them
BurstLine == LineOnDisk(LogLine("invalid", 3, N_wati, E_bad), 2)

BurstTimes == (chunkCap \div Len(BurstLine)) + 1

NoTailFile ==
  [present |-> FALSE, data |-> << >>, todo |-> << >>, mid |-> FALSE, parts |-> 0,
   bursts |-> 0, mtime |-> 0]

\* the file a worker is about to create
ComingFile ==
  [NoTailFile EXCEPT !.todo = TailScript, !.parts = MaxPartWrites, !.bursts = MaxBursts]

\* bytes reach the end of the file
Written(file, bytes, times, now) ==
  [file EXCEPT
     !.data = IF times = 1 /\ file.data # << >> /\ file.data[Len(file.data)].times = 1
              THEN [file.data EXCEPT ![Len(file.data)].bytes = @ \o bytes]
              ELSE Append(file.data, Extent(bytes, times)),
     !.mtime = now]

\* the time of the latest write to a file of the directory
NewestMtime(dir) ==
  CHOOSE t \in {0} \cup {dir[f].mtime : f \in DOMAIN dir} :
    \A f \in DOMAIN dir : dir[f].mtime <= t

\* ensureTracking: the files of listLogFiles not yet tracked start at their
\* size, in the order of the listing; the tracked files no longer listed go
RECURSIVE Untracked(_, _, _)
Untracked(listing, entries, dir) ==
  IF listing = << >> THEN << >>
  ELSE (IF \E i \in DOMAIN entries : entries[i].file = listing[1] THEN << >>
        ELSE <<[file |-> listing[1], pos |-> SizeOf(dir[listing[1]].data)]>>)
       \o Untracked(Tail(listing), entries, dir)

\* listLogFiles: newest first, the first maxWorkers of them
listLogFiles(dir) ==
  SubSeq(SortByMtime(Listing(dir, 1), dir), 1,
         Min(Len(Listing(dir, 1)), followerMaxWorkers))

ensureTracking(entries, dir) ==
  SelectSeq(entries \o Untracked(listLogFiles(dir), entries, dir),
            LAMBDA e : \E i \in DOMAIN listLogFiles(dir) : listLogFiles(dir)[i] = e.file)

\* bytesRead of pollOnce for one tracked file
BytesRead(e, dir) ==
  IF SizeOf(dir[e.file].data) > e.pos
  THEN Min(SizeOf(dir[e.file].data) - e.pos, chunkCap)
  ELSE 0

\* printLine of every line of the chunks read, file by file in the order of
\* this.tracked
RECURSIVE Printed(_, _)
Printed(entries, dir) ==
  IF entries = << >> THEN << >>
  ELSE [k \in DOMAIN ChunkLines(ReadBytes(dir[entries[1].file].data, entries[1].pos,
                                      entries[1].pos + BytesRead(entries[1], dir))) |->
          [file |-> entries[1].file,
           text |-> ChunkLines(ReadBytes(dir[entries[1].file].data, entries[1].pos,
                                     entries[1].pos + BytesRead(entries[1], dir)))[k].text,
           times |-> ChunkLines(ReadBytes(dir[entries[1].file].data, entries[1].pos,
                                      entries[1].pos + BytesRead(entries[1], dir)))[k].times]]
       \o Printed(Tail(entries), dir)

IsTracked(entries, f) == \E i \in DOMAIN entries : entries[i].file = f

EntryOf(entries, f) == entries[CHOOSE i \in DOMAIN entries : entries[i].file = f]

NoRead == [from |-> 0, size |-> 0, read |-> 0]

NotStarted ==
  [started |-> FALSE, first |-> [f \in 1..MaxTailFiles |-> -1],
   last |-> [f \in 1..MaxTailFiles |-> NoRead]]

\* what the follower did, kept for the properties: per file the offset it was
\* first tracked at, and the offset, the size and the bytesRead of the latest
\* pollOnce (before: this.tracked at the call, after: after ensureTracking)
Noted(note, before, after, dir, reads) ==
  [started |-> TRUE,
   first |-> [f \in DOMAIN dir |->
                IF ~IsTracked(after, f) THEN -1
                ELSE IF IsTracked(before, f) THEN note.first[f]
                ELSE EntryOf(after, f).pos],
   last |-> [f \in DOMAIN dir |->
               IF ~IsTracked(after, f) THEN NoRead
               ELSE [from |-> EntryOf(after, f).pos,
                     size |-> SizeOf(dir[f].data),
                     read |-> IF reads THEN BytesRead(EntryOf(after, f), dir) ELSE 0]]]

notTailVars == <<coreVars, ioVars, runVars, lockVars, monVars, cellVars, backVars, scopeVars>>

\* an empty logs directory, workers about to start, a follower not yet started
InitTail ==
  /\ OthersIdle /\ IoIdle /\ RunIdle /\ LockIdle /\ MonIdle /\ CellIdle /\ BackIdle /\ ScopeIdle
  /\ tfile = [f \in 1..MaxTailFiles |-> ComingFile]
  /\ tracked = << >>
  /\ emitted = << >>
  /\ tread = NotStarted

\* initLogger: fs.createWriteStream opens the file
TailCreate(f) ==
  /\ ~tfile[f].present
  /\ tfile[f].todo # << >>
  /\ tfile' = [tfile EXCEPT ![f].present = TRUE, ![f].mtime = NewestMtime(tfile) + 1]
  /\ UNCHANGED <<tracked, emitted, tread>>
  /\ UNCHANGED notTailVars

\* the write of the next line (or of what is left of it) reaches the file
TailAppend(f) ==
  /\ tfile[f].present
  /\ tfile[f].todo # << >>
  /\ tfile' = [tfile EXCEPT
                 ![f] = [Written(tfile[f], tfile[f].todo[1], 1, NewestMtime(tfile) + 1)
                           EXCEPT !.todo = Tail(@), !.mid = FALSE]]
  /\ UNCHANGED <<tracked, emitted, tread>>
  /\ UNCHANGED notTailVars

\* the file system shows the file with only the first k bytes of that write
TailAppendPart(f) ==
  /\ tfile[f].present
  /\ tfile[f].todo # << >>
  /\ ~tfile[f].mid
  /\ tfile[f].parts > 0
  /\ \E k \in 1..(Len(tfile[f].todo[1]) - 1) :
       tfile' = [tfile EXCEPT
                   ![f] = [Written(tfile[f], SubSeq(tfile[f].todo[1], 1, k), 1,
                                   NewestMtime(tfile) + 1)
                             EXCEPT !.todo = <<SubSeq(tfile[f].todo[1], k + 1,
                                                      Len(tfile[f].todo[1]))>>
                                             \o Tail(tfile[f].todo),
                                    !.mid = TRUE, !.parts = @ - 1]]
  /\ UNCHANGED <<tracked, emitted, tread>>
  /\ UNCHANGED notTailVars

\* the worker writes BurstTimes lines before the follower polls again
TailBurst(f) ==
  /\ tfile[f].present
  /\ ~tfile[f].mid
  /\ tfile[f].bursts > 0
  /\ tfile' = [tfile EXCEPT
                 ![f] = [Written(tfile[f], BurstLine, BurstTimes, NewestMtime(tfile) + 1)
                           EXCEPT !.bursts = @ - 1]]
  /\ UNCHANGED <<tracked, emitted, tread>>
  /\ UNCHANGED notTailVars

\* the log file is deleted
TailRemove(f) ==
  /\ tfile[f].present
  /\ tfile' = [tfile EXCEPT ![f] = NoTailFile]
  /\ UNCHANGED <<tracked, emitted, tread>>
  /\ UNCHANGED notTailVars

\* start(): this.ensureTracking(), then the timer is set
FollowStart ==
  /\ ~tread.started
  /\ \E after \in {ensureTracking(tracked, tfile)} :
       /\ tracked' = after
       /\ tread' = Noted(tread, tracked, after, tfile, FALSE)
  /\ UNCHANGED <<tfile, emitted>>
  /\ UNCHANGED notTailVars

\* the timer callback: pollOnce()
FollowPoll ==
  /\ tread.started
  /\ \E after \in {ensureTracking(tracked, tfile)} :
       /\ tracked' = [i \in DOMAIN after |->
                        [after[i] EXCEPT !.pos = @ + BytesRead(after[i], tfile)]]
       /\ emitted' = emitted \o Printed(after, tfile)
       /\ tread' = Noted(tread, tracked, after, tfile, TRUE)
  /\ UNCHANGED tfile
  /\ UNCHANGED notTailVars

NextTail ==
  \/ FollowStart
  \/ FollowPoll
  \/ \E f \in 1..MaxTailFiles :
       TailCreate(f) \/ TailAppend(f) \/ TailAppendPart(f) \/ TailBurst(f) \/ TailRemove(f)

SpecTail == InitTail /\ [][NextTail]_vars

\* the byte at offset p of a sequence of extents
RECURSIVE ByteAt(_, _)
ByteAt(data, p) ==
  IF p < Len(data[1].bytes) * data[1].times
  THEN data[1].bytes[(p % Len(data[1].bytes)) + 1]
  ELSE ByteAt(Tail(data), p - Len(data[1].bytes) * data[1].times)

\* the offsets that decide whether two sequences of extents hold the same
\* bytes: all of an extent written once, the first two rounds of an extent
\* written several times (the rounds of both sequences are those of BurstLine)
Probes(data) ==
  UNION {{SizeOf(SubSeq(data, 1, k - 1)) + q :
            q \in 0..(Min(data[k].times, 2) * Len(data[k].bytes) - 1)} :
         k \in DOMAIN data}

SameBytes(a, b) ==
  /\ SizeOf(a) = SizeOf(b)
  /\ \A p \in Probes(a) \cup Probes(b) : ByteAt(a, p) = ByteAt(b, p)

\* the lines printed for file f
PrintedOf(f) == SelectSeq(emitted, LAMBDA item : item.file = f)

\* the bytes stdout got for file f, without the prefixes and the line ends
\* that printLine adds
PrintedBytes(f) ==
  SelectSeq([k \in DOMAIN PrintedOf(f) |->
               Extent(Utf8Encode(PrintedOf(f)[k].text), PrintedOf(f)[k].times)],
            LAMBDA e : e.bytes # << >>)

\* the bytes of a range of the file, without its line ends
ContentBytes(chunk) ==
  SelectSeq([k \in DOMAIN chunk |->
               Extent(SelectSeq(chunk[k].bytes, LAMBDA x : x # 10), chunk[k].times)],
            LAMBDA e : e.bytes # << >>)

\* C31: for every tracked file that is on disk the offset is at most the size of the file,
\* the latest poll read the bytes from the offset to min(size, offset + 256 KB)
\* and moved the offset forward by as much, and the bytes printed for the file
\* are the bytes appended since it was first tracked, up to the offset, each
\* once and in the order of the file
C31_OffsetBoundedEveryByteEmittedOnce ==
  \A i \in DOMAIN tracked :
    tfile[tracked[i].file].present =>
    /\ tracked[i].pos <= SizeOf(tfile[tracked[i].file].data)
    /\ tread.last[tracked[i].file].read
         = Min(tread.last[tracked[i].file].size - tread.last[tracked[i].file].from,
               chunkCap)
    /\ tracked[i].pos
         = tread.last[tracked[i].file].from + tread.last[tracked[i].file].read
    /\ tracked[i].pos >= tread.last[tracked[i].file].from
    /\ SameBytes(PrintedBytes(tracked[i].file),
                 ContentBytes(ReadBytes(tfile[tracked[i].file].data,
                                        tread.first[tracked[i].file], tracked[i].pos)))

\* items of equal text in a row, counted together
RECURSIVE Together(_)
Together(items) ==
  IF Len(items) < 2 THEN items
  ELSE IF items[1].text = items[2].text
    THEN Together(<<[text |-> items[1].text, times |-> items[1].times + items[2].times]>>
                    \o SubSeq(items, 3, Len(items)))
  ELSE <<items[1]>> \o Together(Tail(items))

\* the file was first tracked at the start of a line, it ends with a complete
\* line and the follower has read all of it
ReadToTheEnd(e) ==
  /\ tfile[e.file].present
  /\ ~tfile[e.file].mid
  /\ e.pos = SizeOf(tfile[e.file].data)
  /\ \/ tread.first[e.file] = 0
     \/ ByteAt(tfile[e.file].data, tread.first[e.file] - 1) = 10

\* C40: once the follower has read a tracked file to its end, the lines it
\* printed for the file are the lines appended since the file was first
\* tracked, each once and whole, whatever polls and writes came in between
C40_EveryAppendedLinePrintedWhole ==
  \A i \in DOMAIN tracked :
    ReadToTheEnd(tracked[i]) =>
      Together([k \in DOMAIN PrintedOf(tracked[i].file) |->
                  [text |-> PrintedOf(tracked[i].file)[k].text,
                   times |-> PrintedOf(tracked[i].file)[k].times]])
        = Together(ChunkLines(ReadBytes(tfile[tracked[i].file].data,
                                        tread.first[tracked[i].file],
                                        SizeOf(tfile[tracked[i].file].data))))

(***************************************************************************)
(* The sheet, cell by cell: getSpreadsheetDataFlexible detects the columns *)
(* from the header row, the record loop writes through updateCellByIndex,  *)
(* and every write is a values.update on an A1 range that the Sheets       *)
(* service resolves. The sheet is restructured only between two cycles.    *)
(***************************************************************************)

\* cycles of the worker the model follows
MaxGridCycles == 2

\* edits of the sheet layout by its owner, between cycles
MaxRestructures == 1

\* MAX_PER_RUN of the worker of this flow
GridMaxPerRun == 2

H_FolderId == <<70, 111, 108, 100, 101, 114, 73, 100>>     \* 'FolderId'
H_isFolderExists ==
  <<105, 115, 70, 111, 108, 100, 101, 114, 69, 120, 105, 115, 116, 115>>  \* 'isFolderExists'
H_LastLog == <<76, 97, 115, 116, 76, 111, 103>>            \* 'LastLog'
H_Kelas == <<75, 101, 108, 97, 115>>                       \* 'Kelas'
V_kelas == <<88, 73, 73>>                                  \* 'XII'

\* const extras = ['FolderId','isShared','isFolderExists','LastLog']
extras == <<H_FolderId, H_isShared, H_isFolderExists, H_LastLog>>

\* toCol: 0-based column index -> A1 column letters
RECURSIVE ToColFrom(_, _)
ToColFrom(n, s) ==
  IF n > 0 THEN ToColFrom((n - 1) \div 26, <<65 + ((n - 1) % 26)>> \o s) ELSE s

\* a conversion that takes the index for the column number
toColZeroBased(index) == ToColFrom(index, << >>)

toCol(index) == ToColFrom(index + 1, << >>)

\* the Sheets service resolving the column letters of an A1 range: the
\* 1-based number of the column
RECURSIVE ColumnNumber(_)
ColumnNumber(letters) ==
  IF letters = << >> THEN 0
  ELSE 26 * ColumnNumber(SubSeq(letters, 1, Len(letters) - 1)) + (letters[Len(letters)] - 64)

\* row[col] || '' on a row as values.get returns it (cells to the right of
\* the last value are absent); c is the 1-based number of the column
CellOf(row, c) == IF c \in DOMAIN row THEN row[c] ELSE EMPTY

\* the cell in sheet row r, column c
GridCell(g, r, c) == IF r \in DOMAIN g THEN CellOf(g[r], c) ELSE EMPTY

\* values.update with one row of values starting at column c of sheet row r
PutRow(g, r, c, values) ==
  LET rows == [i \in 1..Max(Len(g), r) |-> IF i \in DOMAIN g THEN g[i] ELSE << >>]
      old == rows[r]
      new == [j \in 1..Max(Len(old), c + Len(values) - 1) |->
                IF j >= c /\ j < c + Len(values) THEN values[j - c + 1] ELSE CellOf(old, j)]
  IN  [rows EXCEPT ![r] = new]

\* one values.update as sent: the A1 range (column letters, row) and the row
\* of values
Update(col, row, values) == [col |-> col, row |-> row, values |-> values]

\* the Sheets service applying an update
Applied(g, u) == PutRow(g, u.row, ColumnNumber(u.col), u.values)

RECURSIVE AppliedAll(_, _)
AppliedAll(g, us) == IF us = << >> THEN g ELSE AppliedAll(Applied(g, Head(us)), Tail(us))

\* updateCell: one cell; updateCellByIndex: no request for a missing index
updateCellByIndex(colIndex, row, value) ==
  IF colIndex >= 0 THEN <<Update(toCol(colIndex), row, <<value>>)>> ELSE << >>

\* headers.includes(h)
Includes(seq, x) == \E i \in DOMAIN seq : seq[i] = x

\* extras.filter(h => !headers.includes(h))
MissingExtras(headers) == SelectSeq(extras, LAMBDA h : ~Includes(headers, h))

\* the update that appends the missing headers to row 1, if any
HeaderAppend(headers) ==
  IF MissingExtras(headers) # << >>
  THEN <<Update(toCol(Len(headers)), 1, MissingExtras(headers))>>
  ELSE << >>

\* the columns object returned by getSpreadsheetDataFlexible
Columns(headers) ==
  LET all == headers \o MissingExtras(headers)
  IN  [nameCol |-> findIndexByNames(headers, NameCandidates),
       emailCol |-> findIndexByNames(headers, EmailCandidates),
       folderIdCol |-> IndexOf(all, H_FolderId),
       isSharedCol |-> IndexOf(all, H_isShared),
       isFolderExistsCol |-> IndexOf(all, H_isFolderExists),
       lastLogCol |-> IndexOf(all, H_LastLog)]

NoColumns ==
  [nameCol |-> -1, emailCol |-> -1, folderIdCol |-> -1, isSharedCol |-> -1,
   isFolderExistsCol |-> -1, lastLogCol |-> -1]

\* values.slice(1).map((row, index) => ({ rowIndex: index + 2, ... }))
GridParticipants(g, columns) ==
  [i \in 1..(Len(g) - 1) |->
     [rowIndex |-> i + 1,
      nama |-> CellOf(g[i + 1], columns.nameCol + 1),
      email |-> CellOf(g[i + 1], columns.emailCol + 1),
      folderId |-> CellOf(g[i + 1], columns.folderIdCol + 1),
      isShared |-> CellOf(g[i + 1], columns.isSharedCol + 1),
      isFolderExists |-> CellOf(g[i + 1], columns.isFolderExistsCol + 1)]]

\* getSpreadsheetDataFlexible returns null: no usable header, or no data row
GridUsable(g) == Len(g) > 1 /\ HeaderUsable(g[1])

\* the LastLog text of an iteration, whatever its outcome: '[..] ...'
L_note == <<91, 93>>

\* the ways one iteration of the record loop can end
RecordOutcomes ==
  {"invalid", "duplicate", "alreadyShared", "notFound", "hasPermission", "granted",
   "errorEarly", "errorLate"}

\* after the folder was resolved: isFolderExists, and the FolderId only into
\* a cell that was empty when the sheet was read
ResolvedWrites(columns, p, folderId) ==
  updateCellByIndex(columns.isFolderExistsCol, p.rowIndex, S_TRUE)
  \o (IF ~Truthy(p.folderId)
      THEN updateCellByIndex(columns.folderIdCol, p.rowIndex, folderId)
      ELSE << >>)

\* the values.update calls of one iteration, in order
RecordWrites(columns, p, outcome, folderId) ==
  CASE outcome = "invalid" ->
         updateCellByIndex(columns.isSharedCol, p.rowIndex, S_FALSE)
         \o updateCellByIndex(columns.lastLogCol, p.rowIndex, L_note)
    [] outcome \in {"duplicate", "alreadyShared"} ->
         updateCellByIndex(columns.lastLogCol, p.rowIndex, L_note)
    [] outcome = "notFound" ->
         updateCellByIndex(columns.isFolderExistsCol, p.rowIndex, S_FALSE)
         \o updateCellByIndex(columns.lastLogCol, p.rowIndex, L_note)
    [] outcome = "hasPermission" ->
         ResolvedWrites(columns, p, folderId)
         \o updateCellByIndex(columns.isSharedCol, p.rowIndex, S_TRUE)
         \o updateCellByIndex(columns.lastLogCol, p.rowIndex, L_note)
         \o updateCellByIndex(columns.isSharedCol, p.rowIndex, S_TRUE)
    [] outcome = "granted" ->
         ResolvedWrites(columns, p, folderId)
         \o updateCellByIndex(columns.isSharedCol, p.rowIndex, S_TRUE)
         \o updateCellByIndex(columns.lastLogCol, p.rowIndex, L_note)
    [] outcome = "errorEarly" ->
         updateCellByIndex(columns.isSharedCol, p.rowIndex, S_FALSE)
         \o updateCellByIndex(columns.lastLogCol, p.rowIndex, L_note)
    [] OTHER ->
         ResolvedWrites(columns, p, folderId)
         \o updateCellByIndex(columns.isSharedCol, p.rowIndex, S_FALSE)
         \o updateCellByIndex(columns.lastLogCol, p.rowIndex, L_note)

\* sheets the worker is started on: no auxiliary column yet; columns in
\* another order with two auxiliary columns missing and a FolderId filled
\* in by hand; the complete layout with a foreign column, a finished row and
\* a FolderId filled in by hand; no name column
GridBare ==
  << <<H_Nama, H_Email>>,
     <<N_siti, E_a>>,
     <<N_rudy, E_b>>,
     <<N_tono, E_a>> >>

GridMixed ==
  << <<H_isShared, H_EMailPadded, H_Nama, H_FolderId>>,
     <<EMPTY, E_a, N_siti, F_siti>>,
     <<EMPTY, E_b, N_rudy>> >>

GridFull ==
  << <<H_Nama, H_Kelas, H_Email, H_FolderId, H_isShared, H_isFolderExists, H_LastLog>>,
     <<N_siti, V_kelas, E_a, F_siti, S_TRUE, S_TRUE, L_note>>,
     <<N_rudy, V_kelas, E_b, F_rudy>>,
     <<N_tono, V_kelas, E_a>> >>

GridNoName ==
  << <<H_Peserta, H_Email>>,
     <<N_siti, E_a>> >>

GridSheets == {GridBare, GridMixed, GridFull, GridNoName}

\* SHARD_TOTAL and SHARD_INDEX of the worker of this flow
GridShards == {[total |-> 0, index |-> 0], [total |-> 2, index |-> 0], [total |-> 2, index |-> 1]}

\* the owner inserts an empty column before column c
InsertColumn(g, c) ==
  [r \in DOMAIN g |->
     IF c > Len(g[r]) THEN g[r]
     ELSE SubSeq(g[r], 1, c - 1) \o <<EMPTY>> \o SubSeq(g[r], c, Len(g[r]))]

notCellVars == <<coreVars, ioVars, runVars, lockVars, monVars, tailVars, backVars, scopeVars>>

InitCells ==
  /\ OthersIdle /\ IoIdle /\ RunIdle /\ LockIdle /\ MonIdle /\ TailIdle /\ BackIdle /\ ScopeIdle
  /\ grid \in GridSheets
  /\ \E shard \in GridShards :
       gcycle = [pc |-> "idle", cycles |-> 0, edits |-> 0, shard |-> shard,
                 before |-> grid, columns |-> NoColumns, work |-> << >>, at |-> 0]
  /\ gwrites = << >>

\* getSpreadsheetDataFlexible, then the filter, the shard and the batch cap
\* of processParticipants
GRead ==
  /\ gcycle.pc = "idle" /\ gcycle.cycles < MaxGridCycles
  /\ IF ~GridUsable(grid)
     THEN /\ gcycle' = [gcycle EXCEPT !.cycles = @ + 1, !.before = grid, !.work = << >>,
                                      !.columns = NoColumns, !.at = 0]
          /\ gwrites' = << >>
          /\ grid' = grid
     ELSE \E columns \in {Columns(grid[1])} :
          \E after \in {AppliedAll(grid, HeaderAppend(grid[1]))} :
          \E set \in {WorkingSet(GridParticipants(after, columns), gcycle.shard.total,
                                  gcycle.shard.index, GridMaxPerRun)} :
            /\ grid' = after
            /\ gwrites' = HeaderAppend(grid[1])
            /\ gcycle' = [gcycle EXCEPT !.pc = IF set = << >> THEN "idle" ELSE "records",
                                        !.cycles = @ + 1, !.before = grid,
                                        !.columns = columns, !.work = set, !.at = 1]
  /\ UNCHANGED notCellVars

\* let folderId = participant.folderId, else what the search returned; null
\* (EMPTY) where the iteration ends before or without a folder
FoundFor(p, outcome) ==
  IF outcome \notin {"hasPermission", "granted", "errorLate"} THEN {EMPTY}
  ELSE IF Truthy(p.folderId) THEN {p.folderId}
  ELSE {F_siti, F_rudy}

\* one iteration of the record loop
GRecord ==
  /\ gcycle.pc = "records"
  /\ \E outcome \in RecordOutcomes :
     \E folderId \in FoundFor(gcycle.work[gcycle.at], outcome) :
     \E us \in {RecordWrites(gcycle.columns, gcycle.work[gcycle.at], outcome, folderId)} :
       /\ grid' = AppliedAll(grid, us)
       /\ gwrites' = gwrites \o us
  /\ gcycle' = [gcycle EXCEPT !.at = @ + 1,
                              !.pc = IF gcycle.at = Len(gcycle.work) THEN "idle" ELSE "records"]
  /\ UNCHANGED notCellVars

\* between two cycles the owner of the sheet inserts a column; what the worker
\* wrote is from then on measured against the sheet as the owner left it
GRestructure ==
  /\ gcycle.pc = "idle" /\ gcycle.edits < MaxRestructures
  /\ grid # << >>
  /\ \E c \in {1, 2} :
       /\ grid' = InsertColumn(grid, c)
       /\ gcycle' = [gcycle EXCEPT !.edits = @ + 1, !.before = InsertColumn(grid, c)]
  /\ gwrites' = << >>
  /\ UNCHANGED notCellVars

NextCells == GRead \/ GRecord \/ GRestructure

SpecCells == InitCells /\ [][NextCells]_vars

\* the cells an update covers: pairs <<row, column number>>
Covered(u) == {<<u.row, ColumnNumber(u.col) + k>> : k \in 0..(Len(u.values) - 1)}

\* the header of column c as the sheet shows it
HeaderOf(g, c) == GridCell(g, 1, c)

\* c is the place where the header row, read from the left, first shows h
DetectedAt(g, c, h) == HeaderOf(g, c) = h /\ IndexOf(g[1], h) = c - 1

\* rows and columns that hold a value somewhere in g or h
GridRows(g, h) == 1..Max(Len(g), Len(h))

RECURSIVE Widest(_, _)
Widest(g, r) == IF r > Len(g) THEN 0 ELSE Max(Len(g[r]), Widest(g, r + 1))

GridColumns(g, h) == 1..Max(Widest(g, 1), Widest(h, 1))

\* the update is the append of the missing auxiliary headers to row 1
IsHeaderAppend(u) ==
  /\ u.row = 1
  /\ ColumnNumber(u.col) = Len(gcycle.before[1]) + 1
  /\ \A k \in DOMAIN u.values :
       Includes(extras, u.values[k]) /\ ~Includes(gcycle.before[1], u.values[k])

\* the update writes one cell of an auxiliary column, at the position the
\* header row of this cycle shows it, in a row of the working set
IsRecordWrite(u) ==
  /\ Len(u.values) = 1
  /\ \E h \in {H_FolderId, H_isShared, H_isFolderExists, H_LastLog} :
       DetectedAt(grid, ColumnNumber(u.col), h)
  /\ ColumnNumber(u.col) - 1 \notin {findIndexByNames(grid[1], NameCandidates),
                                     findIndexByNames(grid[1], EmailCandidates)}
  /\ \E i \in DOMAIN gcycle.work : gcycle.work[i].rowIndex = u.row
  /\ HeaderOf(grid, ColumnNumber(u.col)) = H_FolderId
       => GridCell(gcycle.before, u.row, ColumnNumber(u.col)) = EMPTY

\* C32: in a cycle the worker sends only two kinds of update: the append of
\* the auxiliary headers that row 1 lacks, and single cells of the FolderId,
\* isShared, isFolderExists and LastLog columns, at the positions the header
\* row read in this cycle shows, in rows of its working set, never in the
\* name or the email column and never over a FolderId that was filled in
\* before; every other cell of the sheet is as it was when the cycle began
C32_WritesOnlyAuxCellsOfWorkingSet ==
  /\ \A k \in DOMAIN gwrites : IsHeaderAppend(gwrites[k]) \/ IsRecordWrite(gwrites[k])
  /\ \A r \in GridRows(grid, gcycle.before) : \A c \in GridColumns(grid, gcycle.before) :
       GridCell(grid, r, c) # GridCell(gcycle.before, r, c)
         => \E k \in DOMAIN gwrites : <<r, c>> \in Covered(gwrites[k])

\* a cycle on the restructured sheet appended headers and wrote a resolved FolderId into an empty
\* cell, beside a row whose FolderId was filled in by hand and is unchanged
C32_Witness ==
  /\ gcycle.edits = 1 /\ gcycle.cycles >= 1 /\ gcycle.pc = "idle"
  /\ \E k \in DOMAIN gwrites :
       /\ gwrites[k].row > 1
       /\ HeaderOf(grid, ColumnNumber(gwrites[k].col)) = H_FolderId
  /\ \E i \in DOMAIN gcycle.work :
       /\ Truthy(gcycle.work[i].folderId)
       /\ GridCell(grid, gcycle.work[i].rowIndex, gcycle.columns.folderIdCol + 1)
            = gcycle.work[i].folderId
  /\ \E k \in DOMAIN gwrites : gwrites[k].row = 1

(***************************************************************************)
(* The scoped search, node by node: the breadth-first loop of              *)
(* _findFolderByNameInternal under a parent folder, on a tree deeper than  *)
(* the search depth, raced against the timer of _findFolderByNameFallback. *)
(* Time is left out: the timer may fire between any two listings.          *)
(***************************************************************************)

\* errors the Drive answers listings with before it answers all of them
MaxListErrors == 2

\* listings counted one by one; further listings leave the count as it is
MaxListings == 12

K_2 == <<75, 45, 50>>                            \* "K-2", a regency folder
D_arsip == <<68, 45, 97>>                        \* "D-a", a folder beside the participants
D_lama == <<68, 45, 108>>                        \* "D-l", a folder inside it
F_tono == <<70, 45, 116, 111, 110, 111>>         \* "F-tono"
N_lama == <<108, 97, 109, 97>>                   \* "lama"
N_hadi == <<104, 97, 100, 105>>                  \* "hadi", the name of no folder

\* the folders below the parent folder: "Siti" two levels below it, "Lama"
\* three, "Rudy" four and "Tono" five
ScopedNodes == {ScopeRoot, K_1, K_2, F_siti, D_arsip, D_lama, F_rudy, F_tono}

ScopedChildren ==
  [n \in ScopedNodes |->
     CASE n = ScopeRoot -> <<[id |-> K_1, name |-> <<74, 97, 119, 97>>],
                             [id |-> K_2, name |-> <<66, 97, 108, 105>>]>>
       [] n = K_1 -> <<[id |-> F_siti, name |-> <<83, 105, 116, 105>>],
                       [id |-> D_arsip, name |-> <<65, 114, 115, 105, 112>>]>>
       [] n = D_arsip -> <<[id |-> D_lama, name |-> <<76, 97, 109, 97>>]>>
       [] n = D_lama -> <<[id |-> F_rudy, name |-> <<82, 117, 100, 121>>]>>
       [] n = F_rudy -> <<[id |-> F_tono, name |-> <<84, 111, 110, 111>>]>>
       [] OTHER -> << >>]

\* the names the search is called with
ScopedNames == {N_siti, N_lama, N_rudy, N_tono, N_hadi}

\* the nodes that may answer every listing with a rate-limit error
StuckNodes == {EMPTY, K_2, D_arsip}

IsChildOf(n, m) == \E i \in DOMAIN ScopedChildren[m] : ScopedChildren[m][i].id = n

\* levels of a folder below the parent folder (0 for the parent folder)
RECURSIVE LevelOf(_)
LevelOf(n) ==
  IF n = ScopeRoot THEN 0
  ELSE 1 + LevelOf(CHOOSE m \in ScopedNodes : IsChildOf(n, m))

\* the folder and the folders above it, up to the parent folder
RECURSIVE PathTo(_)
PathTo(n) ==
  IF n = ScopeRoot THEN {n}
  ELSE {n} \cup PathTo(CHOOSE m \in ScopedNodes : IsChildOf(n, m))

\* the folders whose name equals the target case-insensitively
NamedLike(name) ==
  {n \in ScopedNodes \ {ScopeRoot} :
     \E m \in ScopedNodes : \E i \in DOMAIN ScopedChildren[m] :
       /\ ScopedChildren[m][i].id = n
       /\ ToLower(ScopedChildren[m][i].name) = ToLower(name)}

Running == [kind |-> "running"]

NoAnswer == [id |-> EMPTY, depth |-> 0, answer |-> "none"]

notScopeVars == <<coreVars, ioVars, runVars, lockVars, monVars, tailVars, cellVars, backVars>>

\* const queue = [{ id: parentFolderId, depth: 0 }], and the race is on
InitScoped ==
  /\ OthersIdle /\ IoIdle /\ RunIdle /\ LockIdle /\ MonIdle /\ TailIdle /\ CellIdle /\ BackIdle
  /\ \E name \in ScopedNames, stuck \in StuckNodes, quota \in 0..MaxListErrors :
       bfs = [name |-> name, stuck |-> stuck, quota |-> quota,
              queue |-> <<[id |-> ScopeRoot, depth |-> 0]>>,
              dropped |-> {}, listed |-> {}, seen |-> {}, listings |-> 0,
              last |-> NoAnswer, inner |-> Running, outer |-> Pending, late |-> FALSE]

\* the value the internal search ends with reaches the caller of
\* findFolderByName unless the timer won the race
Outcome(v) == IF bfs.outer = Pending THEN Returned(v) ELSE bfs.outer

\* one more listSubfolders; late: issued after findFolderByName returned
AfterListing(b) ==
  [b EXCEPT !.listings = Min(@ + 1, MaxListings),
            !.late = @ \/ b.outer # Pending]

\* the loop after the iteration: while (queue.length), else return null
Looped(b) ==
  IF b.queue = << >>
  THEN [b EXCEPT !.inner = Returned(EMPTY), !.outer = IF @ = Pending THEN Returned(EMPTY) ELSE @]
  ELSE b

\* a requeue that keeps only the node that failed
RequeuedAlone(rest, current) == <<current>>

\* queue.push({ id: current.id, depth: current.depth }) after the shift
Requeued(rest, current) == Append(rest, current)

\* const children = await listSubfolders(current.id) answered; the match on
\* this level, then the next level
BListed ==
  /\ bfs # << >> /\ bfs.inner = Running /\ bfs.queue # << >>
  /\ Head(bfs.queue).depth <= MaxDepth
  /\ Head(bfs.queue).id # bfs.stuck
  /\ LET current == Head(bfs.queue)
         rest == Tail(bfs.queue)
         children == ScopedChildren[current.id]
         hit == ScopedHit(children, ToLower(bfs.name))
         b == [AfterListing(bfs) EXCEPT !.last = [id |-> current.id, depth |-> current.depth,
                                             answer |-> "ok"],
                                   !.listed = @ \cup {current.id},
                                   !.seen = @ \cup {children[i].id : i \in DOMAIN children}]
     IN  IF Truthy(hit)
         THEN bfs' = [b EXCEPT !.queue = rest, !.inner = Returned(hit), !.outer = Outcome(hit)]
         ELSE IF current.depth < MaxDepth
         THEN bfs' = Looped([b EXCEPT !.queue = rest \o [i \in DOMAIN children |->
                                                         [id |-> children[i].id,
                                                          depth |-> current.depth + 1]]])
         ELSE bfs' = Looped([b EXCEPT !.queue = rest])
  /\ UNCHANGED notScopeVars

\* listSubfolders throws: a rate-limit error puts the node back, any other
\* error skips the branch
BFailed ==
  /\ bfs # << >> /\ bfs.inner = Running /\ bfs.queue # << >>
  /\ Head(bfs.queue).depth <= MaxDepth
  /\ LET current == Head(bfs.queue)
         rest == Tail(bfs.queue)
     IN  \E e \in ErrorAnswers :
           /\ IF current.id = bfs.stuck THEN isRetryableRateLimit(e) ELSE bfs.quota > 0
           /\ \E b \in {[AfterListing(bfs) EXCEPT
                           !.quota = IF current.id = bfs.stuck THEN @ ELSE @ - 1,
                           !.last = [id |-> current.id, depth |-> current.depth,
                                     answer |-> IF isRetryableRateLimit(e)
                                                THEN "retryable" ELSE "fatal"]]} :
                IF isRetryableRateLimit(e)
                THEN bfs' = [b EXCEPT !.queue = Requeued(rest, current)]
                ELSE bfs' = Looped([b EXCEPT !.queue = rest,
                                             !.dropped = @ \cup {current.id}])
  /\ UNCHANGED notScopeVars

\* the 30 s timer fires first: findFolderByName returns null, and the
\* internal search is not stopped
BTimeout ==
  /\ bfs # << >> /\ bfs.inner = Running /\ bfs.outer = Pending
  /\ bfs' = [bfs EXCEPT !.outer = FallbackCatch("timeout")]
  /\ UNCHANGED notScopeVars

NextScoped == BListed \/ BFailed \/ BTimeout

SpecScoped == InitScoped /\ [][NextScoped]_vars

\* the event loop runs a loop that has a listing to await
SpecScopedFair == SpecScoped /\ WF_vars(BListed \/ BFailed)

\* C33: the scoped search reaches only the folders up to 3 levels below the
\* parent folder: no folder located deeper appears in a listing it made, and
\* none is returned as the match
C33_NothingBelowLevelThree ==
  /\ \A n \in bfs.seen : LevelOf(n) <= MaxDepth
  /\ (bfs.inner # Running /\ Truthy(bfs.inner.value)) => LevelOf(bfs.inner.value) <= MaxDepth

\* the folders above n, up to the parent folder
Above(n) == PathTo(n) \ {n}

\* the matching folders a listing of the search can show
Within(name) == {n \in NamedLike(name) : LevelOf(n) <= MaxDepth + 1}

\* the step is an iteration of the loop (and not the timer)
IsIteration ==
  \/ bfs'.queue # bfs.queue \/ bfs'.last # bfs.last \/ bfs'.inner # bfs.inner
  \/ bfs'.listings # bfs.listings \/ bfs'.quota # bfs.quota

\* what an iteration does to the queue, by the answer to its listing
QueueKept ==
  IsIteration =>
    /\ SubSeq(bfs'.queue, 1, Len(bfs.queue) - 1) = Tail(bfs.queue)
    /\ bfs'.last.answer = "retryable" => bfs'.queue = Append(Tail(bfs.queue), Head(bfs.queue))
    /\ bfs'.last.answer = "fatal" =>
         /\ bfs'.queue = Tail(bfs.queue)
         /\ bfs'.dropped = bfs.dropped \cup {Head(bfs.queue).id}

\* a search that ended without a match lost every matching folder within
\* its reach to a branch that a non-retryable error skipped
MissedOnlyBySkip ==
  bfs.inner = Returned(EMPTY) => \A n \in Within(bfs.name) : Above(n) \cap bfs.dropped # {}

\* C34: a retryable listing error puts the node back at the end of the queue
\* with its depth unchanged and leaves every other queued node in place, a
\* non-retryable error removes that node only; so a matching folder within
\* reach whose branch is not skipped, and above which no node fails for
\* ever, is found in the end
C34_RequeueKeepsSiblingsAndFinds ==
  /\ [][QueueKept]_vars
  /\ [](MissedOnlyBySkip)
  /\ \A n \in ScopedNodes :
       (n \in Within(bfs.name) /\ bfs.stuck \notin Above(n))
         => <>(bfs.inner = Returned(n) \/ Above(n) \cap bfs.dropped # {})

\* "Lama" was found although listings on the way failed with rate-limit
\* errors and the nodes were queued again
C34_Witness ==
  /\ bfs.inner = Returned(D_lama) /\ bfs.stuck = K_2
  /\ bfs.dropped = {} /\ bfs.quota = 0
  /\ bfs.listings > Cardinality(bfs.listed) + 2

\* C36: the scoped search ends after finitely many listings, also when a
\* node answers every listing with a rate-limit error, and after
\* findFolderByName has returned no listing is issued for that resolution
C36_SearchEndsAndStopsCalling ==
  /\ <>(bfs.inner # Running)
  /\ [](~bfs.late)

(***************************************************************************)
(* The waits of a retry loop: one Drive call (a query of the global        *)
(* search, permissions.list or permissions.create) answered with           *)
(* rate-limit errors until it succeeds, fails for good or gives up.        *)
(***************************************************************************)

SearchCapMs == 30000
ListCapMs == 60000
capMs == 60000
JitterMs == 500

\* Math.floor(Math.random() * 500): the ends and the middle of 0..499
BackoffJitters == {0, 250, JitterMs - 1}

BackoffOps == {"files.list", "permissions.list", "permissions.create"}

CapOf(op) ==
  IF op = "files.list" THEN SearchCapMs
  ELSE IF op = "permissions.list" THEN ListCapMs
  ELSE capMs

\* a backoff that starts at one second
BackoffBaseFromOneSecond(cap, attempt) == Min(cap, (2 ^ (attempt - 1)) * 1000)

\* const base = Math.min(cap, Math.pow(2, attempt) * 1000), attempt already
\* incremented for the call that failed
BackoffBase(cap, attempt) == Min(cap, (2 ^ attempt) * 1000)

notBackVars == <<coreVars, ioVars, runVars, lockVars, monVars, tailVars, cellVars, scopeVars>>

\* let attempt = 0, before the first call
InitBackoff ==
  /\ OthersIdle /\ IoIdle /\ RunIdle /\ LockIdle /\ MonIdle /\ TailIdle /\ CellIdle /\ ScopeIdle
  /\ \E op \in BackoffOps : bo = [op |-> op, attempt |-> 0, waits |-> << >>, pc |-> "call"]

\* the call is answered with a rate-limit error: attempt++, then sleep and
\* retry below the ceiling, else the loop ends
BoRateLimited ==
  /\ bo # << >> /\ bo.pc = "call"
  /\ IF RetryAllowed(bo.attempt + 1, MaxAttemptsOf(bo.op))
     THEN \E jitter \in BackoffJitters :
            bo' = [bo EXCEPT !.attempt = @ + 1,
                             !.waits = Append(@, BackoffBase(CapOf(bo.op), bo.attempt + 1)
                                                 + jitter)]
     ELSE bo' = [bo EXCEPT !.attempt = @ + 1, !.pc = "gaveUp"]
  /\ UNCHANGED notBackVars

\* the call is answered with another error: no sleep
BoFailed ==
  /\ bo # << >> /\ bo.pc = "call"
  /\ bo' = [bo EXCEPT !.attempt = @ + 1, !.pc = "failed"]
  /\ UNCHANGED notBackVars

\* the call succeeds
BoAnswered ==
  /\ bo # << >> /\ bo.pc = "call"
  /\ bo' = [bo EXCEPT !.pc = "answered"]
  /\ UNCHANGED notBackVars

NextBackoff == BoRateLimited \/ BoFailed \/ BoAnswered

SpecBackoff == InitBackoff /\ [][NextBackoff]_vars

C37_SharedOnlyWhenGranted ==
  [][\A r \in DOMAIN sheet :
       (sheet'[r].isShared = S_TRUE /\ sheet[r].isShared # S_TRUE) =>
         \E w \in Workers :
           /\ pc[w] \in {"check", "grant"} /\ pc'[w] # pc[w]
           /\ Current(w).rowIndex = r + 1
           /\ <<cur[w].folderId, Current(w).email>> \in perms']_vars

\* the record of worker w that is between stats.total++ and its outcome
Underway(w) == IF pc[w] \in {"resolve", "check", "grant"} THEN 1 ELSE 0

\* C38: in a cycle every record that was begun raised total by one, every
\* record that ended raised exactly one of done, skipped and errors by one,
\* and when the loop is over total = done + skipped + errors = the size of
\* the working set, which is the total of the summary line
C38_CountersAddUp ==
  \A w \in Workers :
    InCycle(w) =>
      /\ stats[w].total = stats[w].done + stats[w].skipped + stats[w].errors + Underway(w)
      /\ stats[w].total = (idx[w] - 1) + Underway(w)
      /\ pc[w] \in {"summary", "idle"} => stats[w].total = Len(work[w])
      /\ pc[w] = "idle" => log[w][Len(log[w])] = <<"SUMMARY", Len(work[w])>>

\* a cycle of two records ended with one record granted and one that took
\* the exception path
C38_Witness ==
  \E w \in Workers :
    /\ InCycle(w) /\ pc[w] = "idle" /\ Len(work[w]) = 2
    /\ stats[w].done = 1 /\ stats[w].skipped = 0 /\ stats[w].errors = 1
    /\ \E j \in 1..2 : OutcomeAt(w, j) = "ERROR"

(***************************************************************************)
(* The table monitor on a log that holds several cycles.                   *)
(***************************************************************************)

OutcomeKinds ==
  {"GRANTED", "DRY_RUN", "invalid", "notGmail", "duplicate", "hasAccess", "notFound", "failed"}

\* the outcome lines the worker wrote after its last marker line
OutcomesOfLastCycle(file) ==
  {k \in WrittenOf(file, OutcomeKinds) : \A j \in WrittenOf(file, {"marker"}) : j < k}

\* C39: for a log with a marker line whose last marker announces N > 0
\* records, the processed count the monitor shows is at most N, the slot is
\* COMPLETED only when the N outcome lines of that cycle are written, and it
\* is RUNNING while fewer are written
C39_ProgressOfLastCycle ==
  (polled /\ logDir[1].present /\ WrittenOf(logDir[1], {"marker"}) # {}
     /\ LastMarker(logDir[1]) > 0) =>
    /\ Processed(slots[1]) <= LastMarker(logDir[1])
    /\ slots[1].status = "COMPLETED" =>
         Cardinality(OutcomesOfLastCycle(logDir[1])) = LastMarker(logDir[1])
    /\ Cardinality(OutcomesOfLastCycle(logDir[1])) < LastMarker(logDir[1]) =>
         slots[1].status = "RUNNING"

=============================================================================
